---- MODULE Spec2Model ----
(***************************************************************************)
(* Model of the request engine of CongressAPIClient                        *)
(* (src/src/congressapi_client/congressapi_client.py): the Rate Gate       *)
(* (_gate), the backoff helpers and the retry loop (_request_with_backoff).*)
(*                                                                         *)
(* Time is the monotonic clock in whole seconds.  The token count is a     *)
(* float in the code; it is kept here in fixed point, in units of          *)
(* 1/3600 token, so that elapsed * hourly_refill_rate                      *)
(* (= elapsed * capacity / 3600 tokens) is the integer elapsed * capacity. *)
(* Time passes in the client's own sleeps and, outside them, in advances   *)
(* of the clock between calls and during the HTTP exchange (Tick).         *)
(* h and the count fields of g are history: what the running call and its  *)
(* latest _gate call did; h.last is the attempt that has just failed or    *)
(* returned, cleared when the next attempt begins.                         *)
(***************************************************************************)
EXTENDS Integers, Sequences, FiniteSets, TLC

\* ------------------------------------------------------------------ bounds
MaxCalls == 2            \* calls of _request_with_backoff in one behaviour
MaxClock == 3600         \* no time passes outside the client's sleeps after this
MaxTriesBound == 2       \* largest configured max_tries
MaxRph == 2              \* largest configured req_per_hour

\* ------------------------------------------------------- program constants
SecondsPerHour == 3600
TokenUnit == 3600        \* fixed-point value of 1.0 token
RetryableStatuses == {429, 500, 502, 503, 504}

\* --------------------------------------------------- environment's choices
TickSet == {3600}
ServedStatuses == {200, 304, 404, 429, 503}
FaultKinds == {"ConnectionError", "Timeout"}
Urls == {"u1"}
NoHdr == [kind |-> "absent", v |-> 0]
RetryAfterHeaders ==
    { NoHdr,
      [kind |-> "num", v |-> 0], [kind |-> "num", v |-> 2],
      [kind |-> "num", v |-> -1],
      [kind |-> "junk", v |-> 0],
      [kind |-> "date", v |-> 2] }

Max(a, b) == IF a >= b THEN a ELSE b
Min(a, b) == IF a <= b THEN a ELSE b
RECURSIVE Pow2(_)
Pow2(n) == IF n <= 0 THEN 1 ELSE 2 * Pow2(n - 1)
\* int(): truncation towards zero of n/d, d > 0
IntTrunc(n, d) == IF n >= 0 THEN n \div d ELSE -((-n) \div d)

VARIABLES
    cfg,            \* constructor arguments kept as attributes
    now,            \* time.monotonic()
    _last_call,     \* self._last_call
    _last_refill,   \* self._last_refill
    _tokens,        \* self._tokens, fixed point
    pc,             \* position of the caller inside _request_with_backoff
    url,            \* url argument of the current call
    attempt,        \* loop variable of the retry loop
    last_exc,       \* local last_exc
    g,              \* locals of the latest _gate call, and what it did
    result,         \* response returned by the call, or NoResp
    raised,         \* fault raised by the call, or None
    h,              \* what the current call did so far
    calls,          \* calls started so far
    gates,          \* _gate calls started since construction
    \* --- helper functions applied on their own
    fn,             \* the helper applied
    arg,            \* its argument
    res,            \* what it returned
    again,          \* what it returned when applied to its own result
    \* --- _paged and iter_entities
    provider,       \* the document the provider serves at each page URL
    args,           \* keyword arguments of the iter_entities call
    pg_pc,          \* position of the _paged generator
    scope,          \* congress the running walk lists
    items,          \* local items of _paged: extracted, not yet yielded
    data,           \* local data of _paged: the page, parsed and unwrapped
    seen_urls,      \* local seen_urls of _paged
    it,             \* the item the consumer holds, or NoItem
    listed,         \* every item the walks yielded so far, in order
    st_pc,          \* position of the iter_entities generator
    walks,          \* scope values whose walk was started, in order
    out,            \* what the consumer received so far
    trail,          \* raw items pulled so far, with what the world chose
    st_raised,      \* fault the stream raised, or None
    net,            \* requests issued: list pages, details, failed attempts
    \* --- several invocations alive at once on one client
    serialized,     \* the callers of _gate take turns (one logical caller)
    th,             \* position and locals of each caller inside _gate
    wk,             \* position and locals of each _paged generator
    \* --- the consumer of the iter_entities generator
    handed          \* the generator stands at a yield: the consumer holds
                    \* the object and has not asked for the next one

engine_vars == <<cfg, now, _last_call, _last_refill, _tokens, pc, url,
                 attempt, last_exc, g, result, raised, h, calls, gates>>
pure_vars == <<fn, arg, res, again>>
page_vars == <<provider, args, pg_pc, scope, items, data, seen_urls, it,
               listed, st_pc, walks, out, trail, st_raised, net>>
multi_vars == <<serialized, th, wk, handed>>
vars == <<engine_vars, pure_vars, page_vars, multi_vars>>

None == [type |-> "None", status |-> 0, url |-> "", tries |-> 0]
NoResp == [status |-> 0, att |-> -1]
NoGate == [prev_refill |-> 0, now_m |-> 0, tokens |-> 0,
           polite |-> 0, exhaust |-> 0]
NoAttempt == [kind |-> "none", status |-> 0, hdr |-> NoHdr, at |-> 0,
              att |-> -1, sleep |-> "none", dur |-> 0]
NoHistory == [nreq |-> 0, ngate |-> 0, nsleep |-> 0, retryable |-> 0,
              captured |-> None, last |-> NoAttempt]

\* ------------------------------------------------------ parsed payloads
\* A parsed payload (what resp.json() or xmltodict.parse give) is a tagged
\* value: None, an int, a str, a list of values, or a dict from key strings
\* to values.  The field of its tag holds the value, the others are blank.
NoMap == [k \in {} |-> 0]
Val(t, n, s, q, m) == [t |-> t, n |-> n, s |-> s, q |-> q, m |-> m]
NoneV == Val("none", 0, "", <<>>, NoMap)
IntV(n) == Val("int", n, "", <<>>, NoMap)
StrV(x) == Val("str", 0, x, <<>>, NoMap)
ListV(q) == Val("list", 0, "", q, NoMap)
MapV(f) == Val("map", 0, "", <<>>, f)
EmptyMap == MapV(NoMap)

IsNone(x) == x.t = "none"
IsList(x) == x.t = "list"
IsDict(x) == x.t = "map"

\* d.get(k)
Get(d, k) == IF k \in DOMAIN d.m THEN d.m[k] ELSE NoneV

\* Python truth value: None, 0, "", [] and {} are false
Truthy(x) ==
    CASE x.t = "none" -> FALSE
      [] x.t = "int"  -> x.n # 0
      [] x.t = "str"  -> x.s # ""
      [] x.t = "list" -> x.q # <<>>
      [] x.t = "map"  -> DOMAIN x.m # {}
      [] OTHER        -> TRUE

\* the consumer holds no item
NoItem == Val("noitem", 0, "", <<>>, NoMap)

\* no helper is being applied; no stream is open
NoUrl == [t |-> "none", netloc |-> "", path |-> "", query |-> <<>>]
NoCall == [f |-> "none", x |-> NoneV, u |-> NoUrl, base |-> ""]
NoResult == [x |-> NoneV, u |-> NoUrl]
PureIdle == fn = "none" /\ arg = NoCall /\ res = NoResult /\ again = NoResult
NoArgs == [congress |-> 0, congress_range |-> <<>>, hydrate |-> FALSE,
           where |-> FALSE, continue_on_error |-> TRUE]
NoNet == [pages |-> 0, details |-> 0, http |-> 0, failed |-> 0]
PageIdle ==
    /\ provider = <<>>
    /\ args = NoArgs
    /\ pg_pc = "idle"
    /\ scope = 0
    /\ items = <<>>
    /\ data = NoneV
    /\ seen_urls = {}
    /\ it = NoItem
    /\ listed = <<>>
    /\ st_pc = "idle"
    /\ walks = <<>>
    /\ out = <<>>
    /\ trail = <<>>
    /\ st_raised = None
    /\ net = NoNet

\* one caller, no generator alive beside the one of page_vars
MultiIdle == serialized = TRUE /\ th = <<>> /\ wk = <<>> /\ handed = FALSE

\* ----------------------------------------------------------- constructor
\* effective_limit = max(1, int(req_per_hour * (1.0 - rph_margin)))
EffectiveLimit(rph, marginPct) == Max(1, IntTrunc(rph * (100 - marginPct), 100))

hourly_capacity == EffectiveLimit(cfg.req_per_hour, cfg.rph_margin_pct)
\* hourly_refill_rate * 3600, i.e. tokens per hour; its sign is the rate's sign
RefillPerHour == hourly_capacity
SleepSeconds == cfg.sleep_minutes * 60

\* self._tokens = float(self.hourly_capacity)
InitialTokens(cap) == cap * TokenUnit

Configs ==
    [ max_tries      : (-1)..MaxTriesBound,
      min_interval   : {0, 2},
      req_per_hour   : {0, MaxRph},
      rph_margin_pct : {0},
      sleep_minutes  : {15, 60},
      backoff_base   : {1},
      backoff_cap    : {2} ]

Init ==
    /\ cfg \in Configs
    /\ now = 0
    /\ _last_call = 0
    /\ _last_refill = 0
    /\ _tokens = InitialTokens(hourly_capacity)
    /\ pc = "idle"
    /\ url = ""
    /\ attempt = 0
    /\ last_exc = None
    /\ g = NoGate
    /\ result = NoResp
    /\ raised = None
    /\ h = NoHistory
    /\ calls = 0
    /\ gates = 0
    /\ PureIdle
    /\ PageIdle
    /\ MultiIdle

\* ------------------------------------------------------------------- clock
\* Time passing outside the client's own sleeps: the caller's work between
\* calls and the latency of the HTTP exchange.
Tick ==
    /\ pc \in {"idle", "http"}
    /\ \E d \in TickSet : now + d <= MaxClock /\ now' = now + d
    /\ UNCHANGED <<cfg, _last_call, _last_refill, _tokens, pc, url, attempt,
                   last_exc, g, result, raised, h, calls, gates>>
    /\ UNCHANGED <<pure_vars, page_vars, multi_vars>>

\* ------------------------------------------------------------ _gate (89-124)
\* mutant: the shortfall is computed the wrong way round
PoliteWait_reversed == (now - _last_call) - cfg.min_interval

\* wait = self.min_interval - (now_m - last)
PoliteWait == cfg.min_interval - (now - _last_call)

\* lines 91-98: sleep the shortfall, then record the call time; skipped
\* altogether when min_interval <= 0
GatePolite ==
    /\ pc = "gate_polite"
    /\ IF cfg.min_interval > 0
         THEN /\ now' = IF PoliteWait > 0 THEN now + PoliteWait ELSE now
              /\ _last_call' = now'
              /\ g' = [NoGate EXCEPT !.polite = IF PoliteWait > 0 THEN 1 ELSE 0]
         ELSE /\ now' = now
              /\ _last_call' = _last_call
              /\ g' = NoGate
    /\ gates' = gates + 1
    /\ h' = [h EXCEPT !.ngate = @ + 1]
    /\ pc' = "gate_bucket"
    /\ UNCHANGED <<cfg, _last_refill, _tokens, url, attempt, last_exc,
                   result, raised, calls>>
    /\ UNCHANGED <<pure_vars, page_vars, multi_vars>>

\* line 101: the bucket is skipped when rate or capacity is not positive
BucketDisabled == RefillPerHour <= 0 \/ hourly_capacity <= 0

\* mutant: the refill is not capped at the capacity
Refill_uncapped(tokens, elapsed) ==
    tokens + (elapsed * RefillPerHour * TokenUnit) \div SecondsPerHour

\* lines 109 and 120: min(capacity, _tokens + elapsed * rate), fixed point
Refill(tokens, elapsed) ==
    Min(hourly_capacity * TokenUnit,
        tokens + (elapsed * RefillPerHour * TokenUnit) \div SecondsPerHour)

\* mutant: a bucket holding exactly one token counts as exhausted
ShortOfToken_le(tokens) == tokens <= TokenUnit

\* line 112: tokens < 1.0
ShortOfToken(tokens) == tokens < TokenUnit

\* line 123: max(0.0, tokens - 1.0)
Consume(tokens) == Max(0, tokens - TokenUnit)

\* lines 101-112: early return, or read the clock and refill into a local
GateBucket ==
    /\ pc = "gate_bucket"
    /\ IF BucketDisabled
         THEN /\ pc' = "http"
              /\ g' = g
         ELSE /\ g' = [g EXCEPT !.prev_refill = _last_refill, !.now_m = now,
                                !.tokens = Refill(_tokens, now - _last_refill)]
              /\ pc' = IF ShortOfToken(g'.tokens) THEN "gate_exhaust"
                                                  ELSE "gate_commit"
    /\ UNCHANGED <<cfg, now, _last_call, _last_refill, _tokens, url, attempt,
                   last_exc, result, raised, h, calls, gates>>
    /\ UNCHANGED <<pure_vars, page_vars, multi_vars>>

\* mutant: the gate re-checks the bucket after the forced sleep (a while loop)
AfterExhaust_recheck == "gate_bucket"

\* where the gate goes on after the forced sleep: straight to the commit
AfterExhaust == "gate_commit"

\* lines 114-120: the forced sleep, then refill again from the new elapsed time
GateExhaust ==
    /\ pc = "gate_exhaust"
    /\ now' = now + SleepSeconds
    /\ g' = [g EXCEPT !.now_m = now',
                      !.tokens = Refill(_tokens, now' - g.prev_refill),
                      !.exhaust = @ + 1]
    /\ pc' = AfterExhaust
    /\ UNCHANGED <<cfg, _last_call, _last_refill, _tokens, url, attempt,
                   last_exc, result, raised, h, calls, gates>>
    /\ UNCHANGED <<pure_vars, page_vars, multi_vars>>

\* lines 123-124: consume one token and commit
GateCommit ==
    /\ pc = "gate_commit"
    /\ _tokens' = Consume(g.tokens)
    /\ _last_refill' = g.now_m
    /\ pc' = "http"
    /\ UNCHANGED <<cfg, now, _last_call, url, attempt, last_exc, g, result,
                   raised, h, calls, gates>>
    /\ UNCHANGED <<pure_vars, page_vars, multi_vars>>

\* ------------------------------------------------- backoff helpers (129-176)
\* _parse_retry_after at wall-clock time t (the wall clock is the model clock)
ParseRetryAfter(hdr, t) ==
    CASE hdr.kind = "absent" -> 0          \* not value
      [] hdr.kind = "num"    -> hdr.v      \* float(value)
      [] hdr.kind = "date"   -> Max(0, hdr.v - t)
      [] OTHER               -> 0          \* both parses fail

\* mutant: the exponent is the one-based attempt number
BackoffUpper_next(n) == Min(cfg.backoff_cap, cfg.backoff_base * Pow2(n + 1))

\* mutant: the exponential bound is not capped
BackoffUpper_uncapped(n) == cfg.backoff_base * Pow2(n)

\* upper = min(backoff_cap, backoff_base * 2 ** attempt)
BackoffUpper(n) == Min(cfg.backoff_cap, cfg.backoff_base * Pow2(n))

\* random.uniform(0, upper)
BackoffChoices(n) == {0, BackoffUpper(n)}

\* ------------------------------------------ _request_with_backoff (178-205)
IsSuccess(status) == 200 <= status /\ status < 300
IsRetryable(status) == status \in RetryableStatuses
\* requests.Response.raise_for_status raises for 4xx and 5xx
RaisesForStatus(status) == 400 <= status /\ status < 600

HTTPError(status, u) == [type |-> "HTTPError", status |-> status, url |-> u, tries |-> 0]
Fault(kind, u) == [type |-> kind, status |-> 0, url |-> u, tries |-> 0]
ExhaustedFault(u, n) == [type |-> "RequestException", status |-> 0, url |-> u, tries |-> n]

StartRequest ==
    /\ pc = "idle"
    /\ calls < MaxCalls
    /\ calls' = calls + 1
    /\ \E u \in Urls : url' = u
    /\ attempt' = 0
    /\ last_exc' = None
    /\ pc' = "loop"
    /\ UNCHANGED <<cfg, now, _last_call, _last_refill, _tokens, g, result,
                   raised, h, gates>>
    /\ UNCHANGED <<pure_vars, page_vars, multi_vars>>

\* mutants of the loop bound: one attempt too many, one too few
MoreAttempts_extra(a, tries) == a <= tries
MoreAttempts_short(a, tries) == a < tries - 1

\* for attempt in range(self.max_tries)
MoreAttempts(a, tries) == a < tries

\* mutant: the gate is called once, before the first attempt only
GateFirst_once(a) == a = 0

\* line 182: self._gate() is the first statement of every attempt
GateFirst(a) == TRUE

BeginAttempt ==
    /\ pc = "loop"
    /\ MoreAttempts(attempt, cfg.max_tries)
    /\ pc' = IF GateFirst(attempt) THEN "gate_polite" ELSE "http"
    /\ h' = [h EXCEPT !.last = NoAttempt]
    /\ UNCHANGED <<cfg, now, _last_call, _last_refill, _tokens, url, attempt,
                   last_exc, g, result, raised, calls, gates>>
    /\ UNCHANGED <<pure_vars, page_vars, multi_vars>>

Attempted(kind, s, hdr, sleep, d) ==
    [kind |-> kind, status |-> s, hdr |-> hdr, at |-> now, att |-> attempt,
     sleep |-> sleep, dur |-> d]

\* lines 184-185: a 2xx response is returned
HttpSuccess ==
    /\ pc = "http"
    /\ \E s \in ServedStatuses :
         /\ IsSuccess(s)
         /\ result' = [status |-> s, att |-> attempt]
         /\ h' = [h EXCEPT !.nreq = @ + 1,
                           !.last = Attempted("ok", s, NoHdr, "none", 0)]
    /\ pc' = "returned"
    /\ UNCHANGED <<cfg, now, _last_call, _last_refill, _tokens, url, attempt,
                   last_exc, g, raised, calls, gates>>
    /\ UNCHANGED <<pure_vars, page_vars, multi_vars>>

\* lines 189-193: which sleep follows a retryable status
RetrySleepKind(ra) == IF ra > 0 THEN "retry_after" ELSE "backoff"
RetrySleeps(ra, n) == IF ra > 0 THEN {ra} ELSE BackoffChoices(n)

\* lines 186-195: a retryable status sleeps, records the fault and continues
HttpRetryable ==
    /\ pc = "http"
    /\ \E s \in ServedStatuses, hdr \in RetryAfterHeaders :
         /\ ~IsSuccess(s)
         /\ IsRetryable(s)
         /\ LET ra == ParseRetryAfter(hdr, now) IN
            \E d \in RetrySleeps(ra, attempt) :
              /\ now' = now + d
              /\ h' = [h EXCEPT !.nreq = @ + 1, !.nsleep = @ + 1,
                                !.retryable = @ + 1,
                                !.captured = HTTPError(s, url),
                                !.last = Attempted("retryable", s, hdr,
                                                   RetrySleepKind(ra), d)]
         /\ last_exc' = HTTPError(s, url)
    /\ attempt' = attempt + 1
    /\ pc' = "loop"
    /\ UNCHANGED <<cfg, _last_call, _last_refill, _tokens, url, g, result,
                   raised, calls, gates>>
    /\ UNCHANGED <<pure_vars, page_vars, multi_vars>>

\* lines 196 and 198-202: raise_for_status raises an HTTPError, which is a
\* RequestException and is caught by the handler of the same try
HttpErrorStatus ==
    /\ pc = "http"
    /\ \E s \in ServedStatuses :
         /\ ~IsSuccess(s)
         /\ ~IsRetryable(s)
         /\ RaisesForStatus(s)
         /\ \E d \in BackoffChoices(attempt) :
              /\ now' = now + d
              /\ h' = [h EXCEPT !.nreq = @ + 1, !.nsleep = @ + 1,
                                !.last = Attempted("error_status", s, NoHdr,
                                                   "backoff", d)]
         /\ last_exc' = HTTPError(s, url)
    /\ attempt' = attempt + 1
    /\ pc' = "loop"
    /\ UNCHANGED <<cfg, _last_call, _last_refill, _tokens, url, g, result,
                   raised, calls, gates>>
    /\ UNCHANGED <<pure_vars, page_vars, multi_vars>>

\* lines 196-197: raise_for_status passes (1xx, 3xx) and the response is returned
HttpPassThrough ==
    /\ pc = "http"
    /\ \E s \in ServedStatuses :
         /\ ~IsSuccess(s)
         /\ ~IsRetryable(s)
         /\ ~RaisesForStatus(s)
         /\ result' = [status |-> s, att |-> attempt]
         /\ h' = [h EXCEPT !.nreq = @ + 1,
                           !.last = Attempted("passed", s, NoHdr, "none", 0)]
    /\ pc' = "returned"
    /\ UNCHANGED <<cfg, now, _last_call, _last_refill, _tokens, url, attempt,
                   last_exc, g, raised, calls, gates>>
    /\ UNCHANGED <<pure_vars, page_vars, multi_vars>>

\* lines 198-202: connection or timeout fault
HttpFault ==
    /\ pc = "http"
    /\ \E k \in FaultKinds :
         /\ \E d \in BackoffChoices(attempt) :
              /\ now' = now + d
              /\ h' = [h EXCEPT !.nreq = @ + 1, !.nsleep = @ + 1,
                                !.retryable = @ + 1,
                                !.last = Attempted("fault", 0, NoHdr,
                                                   "backoff", d)]
         /\ last_exc' = Fault(k, url)
    /\ attempt' = attempt + 1
    /\ pc' = "loop"
    /\ UNCHANGED <<cfg, _last_call, _last_refill, _tokens, url, g, result,
                   raised, calls, gates>>
    /\ UNCHANGED <<pure_vars, page_vars, multi_vars>>

\* mutant: re-raise whatever fault was recorded last
ExhaustionFault_any(exc, u, tries) ==
    IF exc.type # "None" THEN exc ELSE [type |-> "RequestException", status |-> 0, url |-> u, tries |-> tries]

\* lines 203-205
ExhaustionFault(exc, u, tries) ==
    IF exc.type = "HTTPError" THEN exc ELSE ExhaustedFault(u, tries)

Exhausted ==
    /\ pc = "loop"
    /\ ~MoreAttempts(attempt, cfg.max_tries)
    /\ raised' = ExhaustionFault(last_exc, url, cfg.max_tries)
    /\ pc' = "raised"
    /\ UNCHANGED <<cfg, now, _last_call, _last_refill, _tokens, url, attempt,
                   last_exc, g, result, h, calls, gates>>
    /\ UNCHANGED <<pure_vars, page_vars, multi_vars>>

\* the caller takes the response or the fault; the call's locals are gone
Finish ==
    /\ pc \in {"returned", "raised"}
    /\ pc' = "idle"
    /\ url' = ""
    /\ attempt' = 0
    /\ last_exc' = None
    /\ g' = NoGate
    /\ result' = NoResp
    /\ raised' = None
    /\ h' = NoHistory
    /\ UNCHANGED <<cfg, now, _last_call, _last_refill, _tokens, calls, gates>>
    /\ UNCHANGED <<pure_vars, page_vars, multi_vars>>

Next ==
    \/ Tick
    \/ StartRequest
    \/ BeginAttempt
    \/ GatePolite
    \/ GateBucket
    \/ GateExhaust
    \/ GateCommit
    \/ HttpSuccess
    \/ HttpRetryable
    \/ HttpErrorStatus
    \/ HttpPassThrough
    \/ HttpFault
    \/ Exhausted
    \/ Finish

Spec == Init /\ [][Next]_vars

\* one sequential caller: every step of a running _gate call is taken
GateStep == GatePolite \/ GateBucket \/ GateExhaust \/ GateCommit
FairSpec == Spec /\ WF_vars(GateStep)

TypeOK ==
    /\ pc \in {"idle", "loop", "gate_polite", "gate_bucket", "gate_exhaust",
               "gate_commit", "http", "returned", "raised"}
    /\ attempt \in 0..(MaxTriesBound + 1)

\* ================================================= helpers applied alone
\* The client exists and no request is running.
EngineIdle ==
    /\ cfg = [max_tries |-> MaxTriesBound, min_interval |-> 0,
              req_per_hour |-> 0, rph_margin_pct |-> 0, sleep_minutes |-> 15,
              backoff_base |-> 1, backoff_cap |-> 2]
    /\ now = 0
    /\ _last_call = 0
    /\ _last_refill = 0
    /\ _tokens = InitialTokens(hourly_capacity)
    /\ pc = "idle"
    /\ url = ""
    /\ attempt = 0
    /\ last_exc = None
    /\ g = NoGate
    /\ result = NoResp
    /\ raised = None
    /\ h = NoHistory
    /\ calls = 0
    /\ gates = 0

\* ------------------------------------------------ _extract_items (216-241)
\* mutant: a lone dict under "item" or "items" is not wrapped in a list
ExtractItems_nowrap(block) ==
    IF IsNone(block) THEN <<>>
    ELSE IF IsList(block) THEN block.q
    ELSE IF IsDict(block)
      THEN LET item == Get(block, "item")
               items_ == Get(block, "items")
           IN IF IsList(item) THEN item.q
              ELSE IF IsList(items_) THEN items_.q
              ELSE <<>>
    ELSE <<>>

\* mutant: "items" is looked at before "item"
ExtractItems_items_first(block) ==
    IF IsNone(block) THEN <<>>
    ELSE IF IsList(block) THEN block.q
    ELSE IF IsDict(block)
      THEN LET item == Get(block, "item")
               items_ == Get(block, "items")
           IN IF IsList(items_) THEN items_.q
              ELSE IF IsDict(items_) THEN <<items_>>
              ELSE IF IsList(item) THEN item.q
              ELSE IF IsDict(item) THEN <<item>>
              ELSE <<>>
    ELSE <<>>

ExtractItems(block) ==
    IF IsNone(block) THEN <<>>
    ELSE IF IsList(block) THEN block.q
    ELSE IF IsDict(block)
      THEN LET item == Get(block, "item")
               items_ == Get(block, "items")
           IN IF IsList(item) THEN item.q
              ELSE IF IsDict(item) THEN <<item>>
              ELSE IF IsList(items_) THEN items_.q
              ELSE IF IsDict(items_) THEN <<items_>>
              ELSE <<>>
    ELSE <<>>

\* two list entries, and the values a block can hold under a key
EntryA == MapV([id |-> IntV(1)])
EntryB == MapV([id |-> IntV(2)])
BlockValues ==
    {NoneV, IntV(5), StrV("x"), ListV(<<>>), ListV(<<EntryA>>),
     ListV(<<EntryA, EntryB>>), EntryA, EmptyMap}
Blocks ==
    {NoneV, IntV(0), IntV(5), StrV(""), StrV("x"), EmptyMap,
     ListV(<<>>), ListV(<<EntryA>>), ListV(<<EntryA, EntryB>>),
     MapV([count |-> IntV(2)]), MapV([other |-> ListV(<<EntryA>>)])}
    \cup {MapV([item |-> x]) : x \in BlockValues}
    \cup {MapV([items |-> x]) : x \in BlockValues}
    \cup {MapV([item |-> x, items |-> y]) : x \in BlockValues, y \in BlockValues}

\* ------------------------------------------- _paged._unwrap_root (281-287)
\* mutant: the page is never unwrapped
UnwrapRoot_never(d) == d

UnwrapRoot(d) ==
    IF ~IsDict(d) THEN d
    ELSE IF "root" \in DOMAIN d.m /\ IsDict(d.m["root"]) THEN d.m["root"]
    ELSE d

InnerPage == MapV([members |-> MapV([item |-> EntryA]), pagination |-> NoneV])
RootValues == {InnerPage, EmptyMap, NoneV, StrV("x"), ListV(<<EntryA>>)}
RootSiblings == {NoneV, EmptyMap, MapV([next |-> StrV("p2")])}
WrappedPages ==
    {MapV([root |-> x]) : x \in RootValues}
    \cup {MapV([root |-> x, pagination |-> y]) : x \in RootValues, y \in RootSiblings}
    \cup {InnerPage, EmptyMap, NoneV, ListV(<<EntryA>>)}

\* -------------------------------------------------- _url_with_key (244-256)
\* A URL string is kept by its parts: the netloc, the path and the query as
\* it is written, a sequence of fields.  A field is written "k=v" with the
\* value in urlencode's own encoding (w = "canon"), "k=v" with a space
\* percent-encoded as %20 where urlencode writes + (w = "pct"), or "k"
\* with no "=" at all (w = "bare", the value is blank).  The argument can
\* also be None or the empty string.
UrlV(netloc, path, query) ==
    [t |-> "url", netloc |-> netloc, path |-> path, query |-> query]
EmptyUrl == [t |-> "str", netloc |-> "", path |-> "", query |-> <<>>]
Field(k, v, w) == [k |-> k, v |-> v, w |-> w]

\* parse_qsl(query, keep_blank_values=True): the decoded (key, value) pairs
ParseQsl(query) == [i \in 1..Len(query) |-> <<query[i].k, query[i].v>>]

\* dict(pairs): a key keeps the place of its first occurrence and the value
\* of its last
RECURSIVE DictOf(_)
DictOf(pairs) ==
    IF pairs = <<>> THEN <<>>
    ELSE LET n == Len(pairs)
             d == DictOf(SubSeq(pairs, 1, n - 1))
             p == pairs[n]
         IN IF \E i \in 1..Len(d) : d[i][1] = p[1]
              THEN [i \in 1..Len(d) |-> IF d[i][1] = p[1] THEN p ELSE d[i]]
              ELSE Append(d, p)

HasKey(d, k) == \E i \in 1..Len(d) : d[i][1] = k

\* urlencode(q, doseq=True): every entry written "k=v", urlencode's encoding
UrlEncode(d) == [i \in 1..Len(d) |-> Field(d[i][1], d[i][2], "canon")]

\* self.api_key
ApiKey == "KEY"
\* the literal of line 249
CongressApiNetloc == "api.congress.gov"

\* mutant: the key is appended without looking for one already there
UrlWithKey_append(u) ==
    IF u.t # "url" THEN u
    ELSE IF u.netloc # CongressApiNetloc THEN u
    ELSE LET q == DictOf(ParseQsl(u.query))
         IN UrlV(u.netloc, u.path,
                 Append(UrlEncode(q), Field("api_key", ApiKey, "canon")))

\* "not url" holds of None and of the empty string
UrlWithKey(u) ==
    IF u.t # "url" THEN u
    ELSE IF u.netloc # CongressApiNetloc THEN u
    ELSE LET q == DictOf(ParseQsl(u.query))
             q2 == IF HasKey(q, "api_key") THEN q
                   ELSE Append(q, <<"api_key", ApiKey>>)
         IN UrlV(u.netloc, u.path, UrlEncode(q2))

\* base_url of the constructor: the default, or another deployment of the API
BaseNetlocs == {"api.congress.gov", "api.example.test"}
Netlocs == BaseNetlocs \cup {"www.congress.gov"}
MaxFields == 2
Fields ==
    {Field("page", "2", "canon"), Field("page", "a b", "canon"),
     Field("page", "a b", "pct"), Field("page", "", "bare"),
     Field("api_key", "OLD", "canon"), Field("api_key", "OLD2", "canon"),
     Field("api_key", "", "canon"), Field("api_key", "", "bare")}
Queries == UNION {[1..n -> Fields] : n \in 0..MaxFields}
UrlInputs ==
    {NoUrl, EmptyUrl} \cup {UrlV(n, "/v3/member", q) : n \in Netlocs, q \in Queries}

\* ------------------------------------------------------- applying a helper
HelperCalls ==
    {[f |-> "_extract_items", x |-> b, u |-> NoUrl, base |-> ""] : b \in Blocks}
    \cup {[f |-> "_unwrap_root", x |-> d, u |-> NoUrl, base |-> ""] : d \in WrappedPages}
    \cup {[f |-> "_url_with_key", x |-> NoneV, u |-> u, base |-> b] :
            u \in UrlInputs, b \in BaseNetlocs}

PureInit ==
    /\ EngineIdle
    /\ PageIdle
    /\ fn = "none"
    /\ arg \in HelperCalls
    /\ res = NoResult
    /\ again = NoResult
    /\ MultiIdle

ApplyExtractItems ==
    /\ fn = "none"
    /\ arg.f = "_extract_items"
    /\ fn' = "_extract_items"
    /\ res' = [x |-> ListV(ExtractItems(arg.x)), u |-> NoUrl]
    /\ UNCHANGED <<arg, again>>
    /\ UNCHANGED <<engine_vars, page_vars, multi_vars>>

ApplyUnwrapRoot ==
    /\ fn = "none"
    /\ arg.f = "_unwrap_root"
    /\ fn' = "_unwrap_root"
    /\ res' = [x |-> UnwrapRoot(arg.x), u |-> NoUrl]
    /\ UNCHANGED <<arg, again>>
    /\ UNCHANGED <<engine_vars, page_vars, multi_vars>>

ApplyUrlWithKey ==
    /\ fn = "none"
    /\ arg.f = "_url_with_key"
    /\ fn' = "_url_with_key"
    /\ res' = [x |-> NoneV, u |-> UrlWithKey(arg.u)]
    /\ UNCHANGED <<arg, again>>
    /\ UNCHANGED <<engine_vars, page_vars, multi_vars>>

\* the result of _extract_items is passed to it once more
ReapplyExtractItems ==
    /\ fn = "_extract_items"
    /\ fn' = "_extract_items twice"
    /\ again' = [x |-> ListV(ExtractItems(res.x)), u |-> NoUrl]
    /\ UNCHANGED <<arg, res>>
    /\ UNCHANGED <<engine_vars, page_vars, multi_vars>>

\* the result of _url_with_key is passed to it once more
ReapplyUrlWithKey ==
    /\ fn = "_url_with_key"
    /\ fn' = "_url_with_key twice"
    /\ again' = [x |-> NoneV, u |-> UrlWithKey(res.u)]
    /\ UNCHANGED <<arg, res>>
    /\ UNCHANGED <<engine_vars, page_vars, multi_vars>>

PureNext ==
    \/ ApplyExtractItems
    \/ ReapplyExtractItems
    \/ ApplyUnwrapRoot
    \/ ApplyUrlWithKey
    \/ ReapplyUrlWithKey

PureSpec == PureInit /\ [][PureNext]_vars

\* ===================================================== _paged (280-342)
\* The provider: the document served at the first-page URL of a walk and at
\* each next link.  Next links are the raw strings the provider writes into
\* pagination.next; the client's own first-page URL (with its api_key and
\* limit parameters) is not among them.
MaxPageItems == 2
Links == {"p2", "p3"}
PageUrls == {"first"} \cup Links
NoPagination == {"absent", "empty"}
\* keyed[i]: entry i carries the key field its detail lookup needs
DocsOf(keyeds) ==
    [fmt : {"json", "xml"}, keyed : keyeds, pag : NoPagination \cup Links]
AllKeyed == {[i \in 1..n |-> TRUE] : n \in 0..MaxPageItems}

\* data_key of the walk: the collection listed
DataKey == "hearings"

\* leaf values read back from XML are text
XmlText(x) == IF x.t = "int" THEN StrV(ToString(x.n)) ELSE x
Leaf(fmt, x) == IF fmt = "xml" THEN XmlText(x) ELSE x

\* entry i of the page served at u for congress cg
RawItem(fmt, cg, u, i, keyed) ==
    MapV([jacketNumber |-> IF keyed THEN Leaf(fmt, IntV(i)) ELSE NoneV,
          congress |-> Leaf(fmt, IntV(cg)),
          chamber |-> StrV("House"),
          number |-> Leaf(fmt, IntV(i)),
          page |-> StrV(u)])
DocItems(doc, cg, u) ==
    [i \in 1..Len(doc.keyed) |-> RawItem(doc.fmt, cg, u, i, doc.keyed[i])]

\* resp.json() of a JSON document: the collection is a list, pagination is
\* {"next": link}, {} or missing
JsonPayload(doc, cg, u) ==
    MapV((DataKey :> ListV(DocItems(doc, cg, u)))
         @@ (IF doc.pag = "absent" THEN NoMap
             ELSE "pagination" :> (IF doc.pag = "empty" THEN EmptyMap
                                   ELSE MapV("next" :> StrV(doc.pag)))))

\* xmltodict.parse of an XML document: everything sits under the root
\* element, an empty element reads as None, one <item> child reads as a
\* dict and several as a list
XmlPayload(doc, cg, u) ==
    LET entries == DocItems(doc, cg, u)
        block == IF entries = <<>> THEN NoneV
                 ELSE IF Len(entries) = 1 THEN MapV("item" :> entries[1])
                 ELSE MapV("item" :> ListV(entries))
        inner == (DataKey :> block)
                 @@ (IF doc.pag = "absent" THEN NoMap
                     ELSE "pagination" :> (IF doc.pag = "empty" THEN NoneV
                                           ELSE MapV("next" :> StrV(doc.pag))))
    IN MapV("root" :> MapV(inner))

\* _parse_payload (147-169): JSON first, XML when the JSON decode fails
ParsePayload(doc, cg, u) ==
    IF doc.fmt = "json" THEN JsonPayload(doc, cg, u) ELSE XmlPayload(doc, cg, u)

\* _request_with_backoff seen from its caller: a response after some failed
\* attempts, or a fault once every attempt failed
FetchOutcomes ==
    {[ok |-> TRUE, failed |-> k] : k \in 0..(MaxTriesBound - 1)}
    \cup {[ok |-> FALSE, failed |-> MaxTriesBound]}
Requested(n, kind, o) ==
    [n EXCEPT ![kind] = @ + 1,
              !.http = @ + o.failed + (IF o.ok THEN 1 ELSE 0),
              !.failed = @ + o.failed]
TransportFault(u) == [type |-> "RequestException", status |-> 0, url |-> u, tries |-> MaxTriesBound]

\* mutant: the generators run on while the consumer of the stream holds
\* the object yielded to it
Pulling_ahead == it = NoItem /\ st_pc \in {"list", "loop"}

\* a generator runs only while its consumer asks for the next item: _paged
\* is suspended at its yield while the item is held (lines 297-298 and
\* 330-331), and so is iter_entities (lines 505 and 507), whose loop is the
\* consumer of _paged
Pulling == it = NoItem /\ st_pc \in {"list", "loop"} /\ ~handed

\* lines 290-293 and 324-329: the page fetched is parsed and unwrapped
PageData(u) == UnwrapRoot(ParsePayload(provider[u], scope, u))

\* mutant: continue_on_error also covers the fault of a list-page fetch
LeavesStream_unless_continue(a) == ~a.continue_on_error

\* lines 479 and 485-495: the for statement that pulls from the list stream
\* stands outside the try, so a fault raised inside _paged leaves
\* iter_entities whatever continue_on_error says
LeavesStream(a) == TRUE

\* lines 289-299 and 324-334: the collection of the page is extracted and
\* its pagination kept; a fault of the fetch leaves the generator and its
\* consumer
Fetched(u, o) ==
    /\ net' = Requested(net, "pages", o)
    /\ data' = IF o.ok THEN PageData(u) ELSE data
    /\ items' = IF o.ok THEN ExtractItems(Get(data', DataKey)) ELSE items
    /\ pg_pc' = IF o.ok THEN "yield" ELSE "raised"
    /\ st_pc' = IF o.ok \/ ~LeavesStream(args) THEN st_pc ELSE "raised"
    /\ st_raised' = IF o.ok \/ ~LeavesStream(args) THEN st_raised
                    ELSE TransportFault(u)

\* lines 300 and 334: pagination = data.get("pagination")
Pagination == Get(data, "pagination")

\* lines 289-293: the first page
PagedFirst ==
    /\ pg_pc = "first"
    /\ Pulling
    /\ \E o \in FetchOutcomes : Fetched("first", o)
    /\ UNCHANGED <<provider, args, scope, seen_urls, it, listed, walks, out, trail>>
    /\ UNCHANGED <<engine_vars, pure_vars, multi_vars>>

\* lines 296-297 and 331-332: the next item of the page goes to the consumer
PagedYield ==
    /\ pg_pc = "yield"
    /\ Pulling
    /\ items # <<>>
    /\ it' = Head(items)
    /\ items' = Tail(items)
    /\ listed' = Append(listed, Head(items))
    /\ UNCHANGED <<provider, args, pg_pc, scope, data, seen_urls, st_pc,
                   walks, out, trail, st_raised, net>>
    /\ UNCHANGED <<engine_vars, pure_vars, multi_vars>>

\* mutant: the walk never looks at the links it followed
Repeated_never(next_url, seen) == FALSE

\* line 316
Repeated(next_url, seen) == next_url \in seen

\* lines 300-311 and 334-342
NextUrl(p) == IF IsDict(p) THEN Get(p, "next") ELSE NoneV

\* page fetches of one walk that the model follows
MaxFetches == 4

\* lines 300-329 and 334-342: after the items of a page, the walk ends on
\* an absent or empty pagination, on an absent next link and on a next link
\* already followed; otherwise it records the link and fetches the page
PagedAdvance ==
    /\ pg_pc = "yield"
    /\ Pulling
    /\ items = <<>>
    /\ IF ~Truthy(Pagination) \/ ~Truthy(NextUrl(Pagination))
         THEN /\ pg_pc' = "done"
              /\ UNCHANGED <<items, data, seen_urls, st_pc, st_raised, net>>
         ELSE LET next_url == NextUrl(Pagination).s
              IN IF Repeated(next_url, seen_urls)
                   THEN /\ pg_pc' = "cycle"
                        /\ UNCHANGED <<items, data, seen_urls, st_pc,
                                       st_raised, net>>
                   ELSE /\ net.pages < MaxFetches * Len(walks)
                        /\ seen_urls' = seen_urls \cup {next_url}
                        /\ \E o \in FetchOutcomes : Fetched(next_url, o)
    /\ UNCHANGED <<provider, args, scope, it, listed, walks, out, trail>>
    /\ UNCHANGED <<engine_vars, pure_vars, multi_vars>>

\* list(self._paged(...)): the consumer keeps every item
Collect ==
    /\ st_pc = "list"
    /\ it # NoItem
    /\ out' = Append(out, it)
    /\ it' = NoItem
    /\ UNCHANGED <<provider, args, pg_pc, scope, items, data, seen_urls,
                   listed, st_pc, walks, trail, st_raised, net>>
    /\ UNCHANGED <<engine_vars, pure_vars, multi_vars>>

\* the URLs a walk from the first page can come to
LinkedFrom(p, us) == us \cup {p[u].pag : u \in {w \in us : p[w].pag \in Links}}
Reachable(p) == LinkedFrom(p, LinkedFrom(p, {"first"}))
\* a document no walk comes to plays no part: it is kept fixed
UnusedDoc == [fmt |-> "json", keyed |-> <<>>, pag |-> "absent"]
Providers(docs) ==
    {p \in [PageUrls -> docs] :
       \A u \in PageUrls \ Reachable(p) : p[u] = UnusedDoc}
PagerProviders == Providers(DocsOf(AllKeyed))

\* one walk, for congress 1, consumed to its end
PagerInit ==
    /\ EngineIdle
    /\ PureIdle
    /\ provider \in PagerProviders
    /\ args = NoArgs
    /\ pg_pc = "first"
    /\ scope = 1
    /\ items = <<>>
    /\ data = NoneV
    /\ seen_urls = {}
    /\ it = NoItem
    /\ listed = <<>>
    /\ st_pc = "list"
    /\ walks = <<1>>
    /\ out = <<>>
    /\ trail = <<>>
    /\ st_raised = None
    /\ net = NoNet
    /\ MultiIdle

PagerNext ==
    \/ PagedFirst
    \/ PagedYield
    \/ PagedAdvance
    \/ Collect

PagerSpec == PagerInit /\ [][PagerNext]_vars
\* the generator and its consumer keep running
PagerFairSpec == PagerSpec /\ WF_vars(PagerNext)

\* ============================================== iter_entities (345-507)
\* The entity streamed is "hearing", listed by congress.  congress = 0
\* stands for an argument that is absent or zero (both are false in the
\* tests of lines 383 and 434); congress_range = <<>> for an absent range.
MaxCongress == 2

\* mutant: the ends of the range are taken as given
Range_noswap(cg, cgr) ==
    IF cgr # <<>> /\ Len(cgr) = 2
      THEN [i \in 1..(cgr[2] - cgr[1] + 1) |-> cgr[1] + i - 1]
      ELSE IF cg # 0 THEN <<cg>> ELSE <<>>

\* _range, lines 378-383
Range(cg, cgr) ==
    IF cgr # <<>> /\ Len(cgr) = 2
      THEN LET a == Min(cgr[1], cgr[2])
               b == Max(cgr[1], cgr[2])
           IN [i \in 1..(b - a + 1) |-> a + i - 1]
      ELSE IF cg # 0 THEN <<cg>> ELSE <<>>

\* line 434: _range(congress, congress_range) or ([congress] if congress else [])
Congresses(a) ==
    LET r == Range(a.congress, a.congress_range)
    IN IF r # <<>> THEN r
       ELSE IF a.congress # 0 THEN <<a.congress>> ELSE <<>>

ValueError == [type |-> "ValueError", status |-> 0, url |-> "", tries |-> 0]

\* where = TRUE: a predicate is given; continue_on_error is left at its
\* default when nothing is hydrated
StreamArgs ==
    {a \in [congress : 0..MaxCongress,
            congress_range : {<<>>} \cup ((1..MaxCongress) \X (1..MaxCongress)),
            hydrate : BOOLEAN, where : BOOLEAN, continue_on_error : BOOLEAN] :
       ~a.hydrate => a.continue_on_error}

\* providers of the stream: one page of two entries, the second without its
\* key field; an XML page of one entry followed by a JSON page of one; an
\* empty listing
OnePage(fmt, keyed) == [fmt |-> fmt, keyed |-> keyed, pag |-> "absent"]
StreamProviders ==
    {[u \in PageUrls |-> IF u = "first" THEN OnePage("json", <<TRUE, FALSE>>)
                         ELSE UnusedDoc],
     [u \in PageUrls |-> IF u = "first" THEN [fmt |-> "xml", keyed |-> <<TRUE>>, pag |-> "p2"]
                         ELSE IF u = "p2" THEN [fmt |-> "json", keyed |-> <<TRUE>>, pag |-> "empty"]
                         ELSE UnusedDoc],
     [u \in PageUrls |-> IF u = "first" THEN OnePage("xml", <<>>) ELSE UnusedDoc]}

StreamInit ==
    /\ EngineIdle
    /\ PureIdle
    /\ provider \in StreamProviders
    /\ args \in StreamArgs
    /\ pg_pc = "idle"
    /\ scope = 0
    /\ items = <<>>
    /\ data = NoneV
    /\ seen_urls = {}
    /\ it = NoItem
    /\ listed = <<>>
    /\ st_pc = "start"
    /\ walks = <<>>
    /\ out = <<>>
    /\ trail = <<>>
    /\ st_raised = None
    /\ net = NoNet
    /\ MultiIdle

\* lines 432-443, run by the first next(): the listing strategy is chosen,
\* and a congress-scoped entity without a congress is refused
StreamStart ==
    /\ st_pc = "start"
    /\ IF Congresses(args) = <<>>
         THEN st_pc' = "raised" /\ st_raised' = ValueError
         ELSE st_pc' = "loop" /\ st_raised' = st_raised
    /\ UNCHANGED <<provider, args, pg_pc, scope, items, data, seen_urls,
                   it, listed, walks, out, trail, net>>
    /\ UNCHANGED <<engine_vars, pure_vars, multi_vars>>

\* _chain, lines 437-440: the walk of the next congress starts when the
\* walk before it is exhausted; after the last one the stream ends
ChainNext ==
    /\ st_pc = "loop"
    /\ Pulling
    /\ pg_pc \in {"idle", "done", "cycle"}
    /\ IF Len(walks) < Len(Congresses(args))
         THEN /\ scope' = Congresses(args)[Len(walks) + 1]
              /\ walks' = Append(walks, scope')
              /\ pg_pc' = "first"
              /\ items' = <<>>
              /\ data' = NoneV
              /\ seen_urls' = {}
              /\ st_pc' = st_pc
         ELSE /\ st_pc' = "done"
              /\ UNCHANGED <<scope, walks, pg_pc, items, data, seen_urls>>
    /\ UNCHANGED <<provider, args, it, listed, out, trail, st_raised, net>>
    /\ UNCHANGED <<engine_vars, pure_vars, multi_vars>>

\* what the consumer receives: the raw list item, or the typed object
\* resolved from the detail of that item
\* mutant: the raw item is handed over wrapped like a resolved object
RawOf_wrapped(x) == [kind |-> "full", item |-> x]

RawOf(x) == [kind |-> "raw", item |-> x]
FullOf(x) == [kind |-> "full", item |-> x]
\* what was decided about a raw item
Pulled(x, detail, pred) == [item |-> x, detail |-> detail, pred |-> pred]
\* results the predicate can give
PredResults(given) == IF given THEN BOOLEAN ELSE {TRUE}

\* mutant: what is yielded is put in front of what was yielded before
Emit_front(o, x) == <<x>> \o o

Emit(o, x) == Append(o, x)

\* lines 481-482 and 507: without hydration the predicate sees the raw item
StreamFast ==
    /\ st_pc = "loop"
    /\ it # NoItem
    /\ ~args.hydrate
    /\ \E pr \in PredResults(args.where) :
         /\ trail' = Append(trail, Pulled(it, "none", pr))
         /\ out' = IF pr THEN Emit(out, RawOf(it)) ELSE out
         /\ handed' = pr
    /\ it' = NoItem
    /\ UNCHANGED <<provider, args, pg_pc, scope, items, data, seen_urls,
                   listed, st_pc, walks, st_raised, net>>
    /\ UNCHANGED <<engine_vars, pure_vars, serialized, th, wk>>

\* mutant: the detail is looked up whatever the item carries
HasKeys_any(x) == TRUE

\* _hydrate for a hearing, lines 447-450: jacketNumber, congress and chamber
HasKeys(x) ==
    /\ Truthy(Get(x, "jacketNumber"))
    /\ Truthy(Get(x, "congress"))
    /\ Truthy(Get(x, "chamber"))

\* lines 485-488: an item without its key fields resolves to None and is
\* passed over
HydrateSkip ==
    /\ st_pc = "loop"
    /\ it # NoItem
    /\ args.hydrate
    /\ ~HasKeys(it)
    /\ trail' = Append(trail, Pulled(it, "nokeys", TRUE))
    /\ it' = NoItem
    /\ UNCHANGED <<provider, args, pg_pc, scope, items, data, seen_urls,
                   listed, st_pc, walks, out, st_raised, net>>
    /\ UNCHANGED <<engine_vars, pure_vars, multi_vars>>

\* lines 485-486 and 497-505: the detail is fetched and the typed object
\* yielded, unless a predicate is given and rejects it
HydrateYield ==
    /\ st_pc = "loop"
    /\ it # NoItem
    /\ args.hydrate
    /\ HasKeys(it)
    /\ \E o \in FetchOutcomes, pr \in PredResults(args.where) :
         /\ o.ok
         /\ net' = Requested(net, "details", o)
         /\ trail' = Append(trail, Pulled(it, "ok", pr))
         /\ out' = IF pr THEN Emit(out, FullOf(it)) ELSE out
         /\ handed' = pr
    /\ it' = NoItem
    /\ UNCHANGED <<provider, args, pg_pc, scope, items, data, seen_urls,
                   listed, st_pc, walks, st_raised>>
    /\ UNCHANGED <<engine_vars, pure_vars, serialized, th, wk>>

\* mutants: the fault of a detail fetch is always passed over, or never
Continues_always(a) == TRUE
Continues_never(a) == FALSE

\* line 490
Continues(a) == a.continue_on_error

\* lines 489-495: a transport fault of the detail fetch is logged and the
\* item passed over, or re-raised to the consumer
HydrateFault ==
    /\ st_pc = "loop"
    /\ it # NoItem
    /\ args.hydrate
    /\ HasKeys(it)
    /\ \E o \in FetchOutcomes :
         /\ ~o.ok
         /\ net' = Requested(net, "details", o)
    /\ trail' = Append(trail, Pulled(it, "fault", TRUE))
    /\ it' = NoItem
    /\ IF Continues(args)
         THEN UNCHANGED <<st_pc, st_raised>>
         ELSE st_pc' = "raised" /\ st_raised' = TransportFault("detail")
    /\ UNCHANGED <<provider, args, pg_pc, scope, items, data, seen_urls,
                   listed, walks, out>>
    /\ UNCHANGED <<engine_vars, pure_vars, multi_vars>>

\* next() of the consumer: the generator resumes after its yield
ConsumerNext ==
    /\ st_pc = "loop"
    /\ handed
    /\ handed' = FALSE
    /\ UNCHANGED <<engine_vars, pure_vars, page_vars, serialized, th, wk>>

StreamNext ==
    \/ StreamStart
    \/ ChainNext
    \/ PagedFirst
    \/ PagedYield
    \/ PagedAdvance
    \/ StreamFast
    \/ HydrateSkip
    \/ HydrateYield
    \/ HydrateFault
    \/ ConsumerNext

StreamSpec == StreamInit /\ [][StreamNext]_vars

\* ================================================ _parse_payload (147-169)
\* The body of a response is a JSON document, an XML document, or text that
\* is neither (an HTML error page, an empty body).  xmltodict is an optional
\* dependency: the import of line 160 fails where it is not installed.
ErrV(name) == Val("error", 0, name, <<>>, NoMap)
IsError(x) == x.t = "error"
\* line 162
RuntimeError == ErrV("RuntimeError: xmltodict is not installed")
\* xmltodict.parse of text that is not XML
ExpatError == ErrV("ExpatError")

JunkDoc == [fmt |-> "junk", keyed |-> <<>>, pag |-> "absent"]
EmptyBody == [fmt |-> "empty", keyed |-> <<>>, pag |-> "absent"]
Bodies == DocsOf(AllKeyed) \cup {JunkDoc, EmptyBody}

\* lines 153-156: resp.json() returns, or raises a ValueError that is caught
JsonDecodes(doc) == doc.fmt = "json"

\* mutant: xmltodict is imported before the JSON decode is tried
ImportsXmltodict_eager(doc) == TRUE

\* lines 158-160: the import is reached only past the failed JSON decode
ImportsXmltodict(doc) == ~JsonDecodes(doc)

\* what the call consults, in order
Consulted(doc, installed) ==
    <<"json">>
    \o (IF ImportsXmltodict(doc) THEN <<"import xmltodict">> ELSE <<>>)
    \o (IF ImportsXmltodict(doc) /\ installed /\ ~JsonDecodes(doc)
          THEN <<"xmltodict.parse">> ELSE <<>>)

\* the value returned, or the fault raised
ParsePayloadOrRaise(doc, installed) ==
    IF ImportsXmltodict(doc) /\ ~installed THEN RuntimeError
    ELSE IF JsonDecodes(doc) THEN JsonPayload(doc, 1, "first")
    ELSE IF doc.fmt = "xml" THEN XmlPayload(doc, 1, "first")
    ELSE ExpatError

PayloadCalls ==
    {[f |-> "_parse_payload", doc |-> d, xmltodict |-> i] :
       d \in Bodies, i \in BOOLEAN}

PayloadInit ==
    /\ EngineIdle
    /\ PageIdle
    /\ fn = "none"
    /\ arg \in PayloadCalls
    /\ res = NoResult
    /\ again = NoResult
    /\ MultiIdle

ApplyParsePayload ==
    /\ fn = "none"
    /\ arg.f = "_parse_payload"
    /\ fn' = "_parse_payload"
    /\ res' = [x |-> ParsePayloadOrRaise(arg.doc, arg.xmltodict),
               tried |-> Consulted(arg.doc, arg.xmltodict)]
    /\ UNCHANGED <<arg, again>>
    /\ UNCHANGED <<engine_vars, page_vars, multi_vars>>

PayloadNext == ApplyParsePayload

PayloadSpec == PayloadInit /\ [][PayloadNext]_vars

\* ============================================ _parse_retry_after (129-142)
\* Header values: none or empty, the text of a number of seconds (float()
\* takes a sign), an HTTP-date (v is its time on the wall clock), or text
\* that is neither.  t is datetime.now(timezone.utc) at the call.
MaxDelay == 3
RetryAfterValues ==
    {NoHdr, [kind |-> "junk", v |-> 0]}
    \cup {[kind |-> "num", v |-> n] : n \in (-MaxDelay)..MaxDelay}
    \cup {[kind |-> "date", v |-> d] : d \in 0..MaxDelay}
RetryAfterCalls ==
    {[f |-> "_parse_retry_after", hdr |-> v, t |-> t] :
       v \in RetryAfterValues, t \in 0..MaxDelay}

RetryAfterInit ==
    /\ EngineIdle
    /\ PageIdle
    /\ fn = "none"
    /\ arg \in RetryAfterCalls
    /\ res = NoResult
    /\ again = NoResult
    /\ MultiIdle

ApplyParseRetryAfter ==
    /\ fn = "none"
    /\ arg.f = "_parse_retry_after"
    /\ fn' = "_parse_retry_after"
    /\ res' = [n |-> ParseRetryAfter(arg.hdr, arg.t)]
    /\ UNCHANGED <<arg, again>>
    /\ UNCHANGED <<engine_vars, page_vars, multi_vars>>

RetryAfterNext == ApplyParseRetryAfter

RetryAfterSpec == RetryAfterInit /\ [][RetryAfterNext]_vars

\* ================================================ _sleep_backoff (171-176)
\* The helper on its own, for clients built with a backoff_base and a
\* backoff_cap that are not negative (the defaults are 0.75 and 60.0).
MaxAttempt == 4
BackoffBases == {0, 1, 2, 3}
BackoffCaps == {0, 1, 4, 8}
BackoffConfigs ==
    [ max_tries      : {MaxAttempt + 1},
      min_interval   : {0},
      req_per_hour   : {0},
      rph_margin_pct : {0},
      sleep_minutes  : {15},
      backoff_base   : BackoffBases,
      backoff_cap    : BackoffCaps ]
BackoffCalls == {[f |-> "_sleep_backoff", n |-> n] : n \in 0..MaxAttempt}

BackoffInit ==
    /\ cfg \in BackoffConfigs
    /\ now = 0
    /\ _last_call = 0
    /\ _last_refill = 0
    /\ _tokens = InitialTokens(hourly_capacity)
    /\ pc = "idle"
    /\ url = ""
    /\ attempt = 0
    /\ last_exc = None
    /\ g = NoGate
    /\ result = NoResp
    /\ raised = None
    /\ h = NoHistory
    /\ calls = 0
    /\ gates = 0
    /\ PageIdle
    /\ fn = "none"
    /\ arg \in BackoffCalls
    /\ res = NoResult
    /\ again = NoResult
    /\ MultiIdle

\* lines 173-176: the time slept is drawn from [0, upper]
ApplySleepBackoff ==
    /\ fn = "none"
    /\ arg.f = "_sleep_backoff"
    /\ fn' = "_sleep_backoff"
    /\ \E d \in BackoffChoices(arg.n) :
         /\ res' = [n |-> d]
         /\ now' = now + d
    /\ UNCHANGED <<arg, again>>
    /\ UNCHANGED <<cfg, _last_call, _last_refill, _tokens, pc, url, attempt,
                   last_exc, g, result, raised, h, calls, gates>>
    /\ UNCHANGED <<page_vars, multi_vars>>

BackoffNext == ApplySleepBackoff

BackoffSpec == BackoffInit /\ [][BackoffNext]_vars

\* ============================== _gate called by several callers (104-124)
\* Two callers share one client.  Each runs the token bucket of _gate
\* statement by statement; another caller can run between any two
\* statements unless the callers take turns (serialized).  min_interval is
\* 0 here, so lines 91-98 are skipped.  The clock moves in the forced sleep
\* only: no token is refilled before the first such sleep.
Threads == {1, 2}
MaxGateCalls == 2
NoLocals == [pc |-> "out", prev_refill |-> 0, now_m |-> 0, tokens |-> 0,
             calls |-> 0, slept |-> 0]
GateConfigs ==
    [ max_tries      : {1},
      min_interval   : {0},
      req_per_hour   : {0, MaxRph},
      rph_margin_pct : {0},
      sleep_minutes  : {15, 60},
      backoff_base   : {1},
      backoff_cap    : {2} ]

\* gate calls that have returned, and forced sleeps taken, over all callers
RECURSIVE SumOver(_, _)
SumOver(f, S) ==
    IF S = {} THEN 0
    ELSE LET t == CHOOSE x \in S : TRUE IN f[t] + SumOver(f, S \ {t})
Passed == SumOver([t \in Threads |-> th[t].calls], Threads)
Slept == SumOver([t \in Threads |-> th[t].slept], Threads)

GatesInit ==
    /\ cfg \in GateConfigs
    /\ now = 0
    /\ _last_call = 0
    /\ _last_refill = 0
    /\ _tokens = InitialTokens(hourly_capacity)
    /\ pc = "idle"
    /\ url = ""
    /\ attempt = 0
    /\ last_exc = None
    /\ g = NoGate
    /\ result = NoResp
    /\ raised = None
    /\ h = NoHistory
    /\ calls = 0
    /\ gates = 0
    /\ PureIdle
    /\ PageIdle
    /\ serialized \in BOOLEAN
    /\ th = [t \in Threads |-> NoLocals]
    /\ wk = <<>>
    /\ handed = FALSE

GateFrame ==
    UNCHANGED <<cfg, _last_call, pc, url, attempt, last_exc, g, result,
                raised, h, calls, pure_vars, page_vars, serialized, wk, handed>>

\* mutant: nothing makes the callers take turns
MayEnter_free(t) == TRUE

\* lines 180-183: the client's own caller is a sequential loop, so one
\* _gate call has returned before the next begins
MayEnter(t) == serialized => \A o \in Threads \ {t} : th[o].pc = "out"

\* _gate is called; line 101
ThreadEnter(t) ==
    /\ th[t].pc = "out"
    /\ th[t].calls < MaxGateCalls
    /\ MayEnter(t)
    /\ gates' = gates + 1
    /\ th' = [th EXCEPT ![t].pc = IF BucketDisabled THEN "return" ELSE "read"]
    /\ UNCHANGED <<now, _tokens, _last_refill>>
    /\ GateFrame

\* lines 104-105: prev_refill and now_m
ThreadRead(t) ==
    /\ th[t].pc = "read"
    /\ th' = [th EXCEPT ![t].pc = "refill",
                        ![t].prev_refill = _last_refill,
                        ![t].now_m = now]
    /\ UNCHANGED <<now, _tokens, _last_refill, gates>>
    /\ GateFrame

\* lines 108-112: the refilled count, computed from self._tokens, in a local
ThreadRefill(t) ==
    /\ th[t].pc = "refill"
    /\ LET tokens == Refill(_tokens, th[t].now_m - th[t].prev_refill)
       IN th' = [th EXCEPT ![t].tokens = tokens,
                           ![t].pc = IF ShortOfToken(tokens) THEN "sleep"
                                                             ELSE "commit"]
    /\ UNCHANGED <<now, _tokens, _last_refill, gates>>
    /\ GateFrame

\* lines 114-118: the forced sleep; time passes for every caller
ThreadSleep(t) ==
    /\ th[t].pc = "sleep"
    /\ now' = now + SleepSeconds
    /\ th' = [th EXCEPT ![t].pc = "woken", ![t].now_m = now',
                        ![t].slept = @ + 1]
    /\ UNCHANGED <<_tokens, _last_refill, gates>>
    /\ GateFrame

\* lines 119-120: the count is refilled again from self._tokens
ThreadWoken(t) ==
    /\ th[t].pc = "woken"
    /\ th' = [th EXCEPT ![t].pc = "commit",
                        ![t].tokens = Refill(_tokens,
                                             th[t].now_m - th[t].prev_refill)]
    /\ UNCHANGED <<now, _tokens, _last_refill, gates>>
    /\ GateFrame

\* line 123: the local count, less one token, overwrites self._tokens
ThreadCommit(t) ==
    /\ th[t].pc = "commit"
    /\ _tokens' = Consume(th[t].tokens)
    /\ th' = [th EXCEPT ![t].pc = "stamp"]
    /\ UNCHANGED <<now, _last_refill, gates>>
    /\ GateFrame

\* line 124
ThreadStamp(t) ==
    /\ th[t].pc = "stamp"
    /\ _last_refill' = th[t].now_m
    /\ th' = [th EXCEPT ![t].pc = "return"]
    /\ UNCHANGED <<now, _tokens, gates>>
    /\ GateFrame

\* the call returns and the request goes out
ThreadReturn(t) ==
    /\ th[t].pc = "return"
    /\ th' = [th EXCEPT ![t].pc = "out", ![t].calls = @ + 1,
                        ![t].prev_refill = 0, ![t].now_m = 0,
                        ![t].tokens = 0]
    /\ UNCHANGED <<now, _tokens, _last_refill, gates>>
    /\ GateFrame

GatesNext ==
    \E t \in Threads :
      \/ ThreadEnter(t)
      \/ ThreadRead(t)
      \/ ThreadRefill(t)
      \/ ThreadSleep(t)
      \/ ThreadWoken(t)
      \/ ThreadCommit(t)
      \/ ThreadStamp(t)
      \/ ThreadReturn(t)

GatesSpec == GatesInit /\ [][GatesNext]_vars

\* =================================== several _paged generators (280-342)
\* Two generators of one client walk the same listing: the second starts
\* at any moment, also while the first is between two pages or after it
\* has ended.  Each fetch returns its page; the pages carry no entries.
Walkers == {1, 2}
NewWalk == [pc |-> "new", next_url |-> "", seen_urls |-> {}, pages |-> <<>>]
WalkProviders == Providers(DocsOf({<<>>}))

WalksInit ==
    /\ cfg \in Configs
    /\ now = 0
    /\ _last_call = 0
    /\ _last_refill = 0
    /\ _tokens = InitialTokens(hourly_capacity)
    /\ pc = "idle"
    /\ url = ""
    /\ attempt = 0
    /\ last_exc = None
    /\ g = NoGate
    /\ result = NoResp
    /\ raised = None
    /\ h = NoHistory
    /\ calls = 0
    /\ gates = 0
    /\ PureIdle
    /\ provider \in WalkProviders
    /\ args = NoArgs
    /\ pg_pc = "idle"
    /\ scope = 1
    /\ items = <<>>
    /\ data = NoneV
    /\ seen_urls = {}
    /\ it = NoItem
    /\ listed = <<>>
    /\ st_pc = "idle"
    /\ walks = <<>>
    /\ out = <<>>
    /\ trail = <<>>
    /\ st_raised = None
    /\ net = NoNet
    /\ serialized = TRUE
    /\ th = <<>>
    /\ wk = [w \in Walkers |-> NewWalk]
    /\ handed = FALSE

\* mutant: one set of seen URLs is kept on the client for all its walks
FreshSeen_shared(w) == UNION {wk[o].seen_urls : o \in Walkers}

\* line 313: seen_urls = set(), a local of the invocation
FreshSeen(w) == {}

\* lines 301-311 and 333-342: the next link of the page at u, "" for none
NextLink(u) ==
    LET pagination == Get(PageData(u), "pagination")
        next_url == NextUrl(pagination)
    IN IF Truthy(pagination) /\ Truthy(next_url) THEN next_url.s ELSE ""

\* lines 289-313: the first page; the walk ends there, or the set of seen
\* URLs is made and the loop entered
WalkFirst(w) ==
    /\ wk[w].pc = "new"
    /\ wk' = [wk EXCEPT ![w].pages = <<"first">>,
                        ![w].next_url = NextLink("first"),
                        ![w].seen_urls = IF NextLink("first") = "" THEN {}
                                         ELSE FreshSeen(w),
                        ![w].pc = IF NextLink("first") = "" THEN "done"
                                  ELSE "loop"]
    /\ UNCHANGED <<engine_vars, pure_vars, page_vars, serialized, th, handed>>

\* lines 314-342: one turn of the loop
WalkLoop(w) ==
    /\ wk[w].pc = "loop"
    /\ LET next_url == wk[w].next_url IN
       IF Repeated(next_url, wk[w].seen_urls)
         THEN wk' = [wk EXCEPT ![w].pc = "cycle"]
         ELSE wk' = [wk EXCEPT ![w].seen_urls = @ \cup {next_url},
                               ![w].pages = Append(@, next_url),
                               ![w].next_url = NextLink(next_url),
                               ![w].pc = IF NextLink(next_url) = "" THEN "done"
                                         ELSE "loop"]
    /\ UNCHANGED <<engine_vars, pure_vars, page_vars, serialized, th, handed>>

WalksNext == \E w \in Walkers : WalkFirst(w) \/ WalkLoop(w)

WalksSpec == WalksInit /\ [][WalksNext]_vars

\* ====================== the requests of _get and of _paged (208-214, 320-323)
\* A request is the URL it goes to and the params mapping handed to
\* session.request (NoMap for none).  The client is built for one of
\* BaseNetlocs; the next links the API writes are on the API's own host.
Limit == 250
ParamKeys == {"congress", "chamber", "limit"}
ParamValues == {NoneV, StrV("118")}
\* params=None, or a mapping whose values can be None
CallerParams ==
    {NoMap} \cup UNION {[K -> ParamValues] : K \in SUBSET ParamKeys}
RequestCalls ==
    {[f |-> "_get", base |-> b, params |-> p, next |-> NoUrl] :
       b \in BaseNetlocs, p \in CallerParams}
    \cup {[f |-> "next page", base |-> b, params |-> NoMap,
           next |-> UrlV(b, "/v3/hearing/118", q)] :
            b \in BaseNetlocs, q \in Queries}

\* lines 210-212: api_key and limit, updated with the caller's parameters
\* whose value is not None
GetParams(params) ==
    LET given == {k \in DOMAIN params : ~IsNone(params[k])}
    IN [k \in {"api_key", "limit"} \cup given |->
          IF k \in given THEN params[k]
          ELSE IF k = "api_key" THEN StrV(ApiKey)
          ELSE IntV(Limit)]

\* lines 209 and 213
GetRequest(base, params) ==
    [url |-> UrlV(base, "/v3/hearing/118", <<>>), params |-> GetParams(params)]

\* lines 321-323: the link, passed through _url_with_key, with no params
NextPageRequest(next_url) == [url |-> UrlWithKey(next_url), params |-> NoMap]

\* the request carries the parameter, in its params or in its URL
Carries(req, k) ==
    \/ k \in DOMAIN req.params
    \/ \E i \in 1..Len(req.url.query) : req.url.query[i].k = k

RequestInit ==
    /\ EngineIdle
    /\ PageIdle
    /\ MultiIdle
    /\ fn = "none"
    /\ arg \in RequestCalls
    /\ res = NoResult
    /\ again = NoResult

ApplyGet ==
    /\ fn = "none"
    /\ arg.f = "_get"
    /\ fn' = "_get"
    /\ res' = GetRequest(arg.base, arg.params)
    /\ UNCHANGED <<arg, again>>
    /\ UNCHANGED <<engine_vars, page_vars, multi_vars>>

ApplyNextPage ==
    /\ fn = "none"
    /\ arg.f = "next page"
    /\ fn' = "next page"
    /\ res' = NextPageRequest(arg.next)
    /\ UNCHANGED <<arg, again>>
    /\ UNCHANGED <<engine_vars, page_vars, multi_vars>>

RequestNext == ApplyGet \/ ApplyNextPage

RequestSpec == RequestInit /\ [][RequestNext]_vars

\* ====================================================== get_bill (815-924)
\* get_bill(117, "hr", 3076, hydrate=...).  The bill payload can carry a
\* "cosponsors" block with a count and a url, and an "amendments" block
\* with a url; the cosponsors endpoint serves a list of members; the
\* amendments endpoint serves an empty list.  Every _get is a call of
\* _request_with_backoff, seen by its outcome.
MaxCosponsors == 2
BillPath == "bill/117/hr/3076"
CosponsorsPath == "bill/117/hr/3076/cosponsors"
AmendmentsPath == "bill/117/hr/3076/amendments"

\* "not url": None and "" are false
UrlTruthy(u) == u.t = "url"

AdvertisedUrls ==
    {NoUrl, EmptyUrl,
     UrlV(CongressApiNetloc, "/v3/bill/117/hr/3076/cosponsors", <<>>),
     UrlV("www.congress.gov", "/bill/117/hr/3076/cosponsors", <<>>)}
\* the "cosponsors" block of the bill payload; has = FALSE: no such block,
\* b.get("cosponsors", {}) is {} and both fields read as None
NoBlock == [has |-> FALSE, count |-> 0, url |-> NoUrl]
CosponsorBlocks ==
    {NoBlock} \cup [has : {TRUE}, count : {0, MaxCosponsors}, url : AdvertisedUrls]
AmendmentUrls ==
    {NoUrl, UrlV(CongressApiNetloc, "/v3/bill/117/hr/3076/amendments", <<>>)}

CosponsorEntry(i) == MapV("bioguideId" :> IntV(i))
CosponsorEntries(n) == [i \in 1..n |-> CosponsorEntry(i)]
\* what the cosponsors endpoint serves under "cosponsors"
ServedCosponsors ==
    {ListV(CosponsorEntries(n)) : n \in 0..MaxCosponsors}
    \cup {MapV("item" :> ListV(CosponsorEntries(MaxCosponsors)))}

\* member mappings of the payload: MemberA2 is MemberA's person in a mapping
\* that differs in one field
MemberA == MapV([bioguideId |-> StrV("M000087"), firstName |-> StrV("CAROLYN")])
MemberA2 == MapV([bioguideId |-> StrV("M000087"), firstName |-> StrV("Carolyn")])
MemberB == MapV([bioguideId |-> StrV("C001078"), firstName |-> StrV("GERALD")])
\* the payload's "sponsors" value and its "sponsor" value
SponsorBlocks ==
    {NoneV, ListV(<<>>), ListV(<<MemberA>>), ListV(<<MemberA, MemberB>>),
     ListV(<<MemberB, MemberA>>), ListV(<<MemberA, MemberA>>),
     MapV([item |-> ListV(<<MemberB, MemberA>>)]), MapV([item |-> MemberB])}
SponsorObjects == {NoneV, EmptyMap, MemberA, MemberA2, MemberB}

BillCalls ==
    [f : {"get_bill"}, hydrate : BOOLEAN, cosponsors : CosponsorBlocks,
     amendments_url : AmendmentUrls, served : ServedCosponsors,
     sponsors : SponsorBlocks, sponsor : SponsorObjects]

NoBill == [cosponsors_count |-> NoneV, cosponsors_url |-> NoUrl,
           cosponsors |-> <<>>, amendments_url |-> NoUrl, sponsors |-> <<>>]
BillStart == [at |-> "detail", gets |-> <<>>, http |-> 0, failed |-> 0,
              cosponsors |-> <<>>, bill |-> NoBill]

BillInit ==
    /\ EngineIdle
    /\ PageIdle
    /\ MultiIdle
    /\ fn = "none"
    /\ arg \in BillCalls
    /\ res = BillStart
    /\ again = NoResult

\* one _get: the requests it issued, and the path when it was answered
Got(r, path, o) ==
    [r EXCEPT !.gets = IF o.ok THEN Append(@, path) ELSE @,
              !.http = @ + o.failed + (IF o.ok THEN 1 ELSE 0),
              !.failed = @ + o.failed]

\* line 837
CosponsorsUrl(call) == UrlWithKey(call.cosponsors.url)

\* mutant: the list is fetched whenever the payload advertises its URL
WantsCosponsors_advertised(hydrate, cosponsors_url) == UrlTruthy(cosponsors_url)

\* lines 873-874
WantsCosponsors(hydrate, cosponsors_url) == hydrate /\ UrlTruthy(cosponsors_url)

\* lines 873 and 876-877
WantsAmendments(call) ==
    call.hydrate /\ UrlTruthy(UrlWithKey(call.amendments_url))

AfterCosponsors(call) == IF WantsAmendments(call) THEN "amendments" ELSE "end"
AfterDetail(call) ==
    IF WantsCosponsors(call.hydrate, CosponsorsUrl(call)) THEN "cosponsors"
    ELSE AfterCosponsors(call)

\* line 827: the bill is fetched; a fault of the fetch leaves get_bill
BillDetail ==
    /\ fn = "none"
    /\ arg.f = "get_bill"
    /\ \E o \in FetchOutcomes :
         /\ res' = [Got(res, BillPath, o) EXCEPT !.at = AfterDetail(arg)]
         /\ fn' = IF o.ok THEN "get_bill" ELSE "get_bill raised"
    /\ UNCHANGED <<arg, again>>
    /\ UNCHANGED <<engine_vars, page_vars, multi_vars>>

\* line 875 and get_bill_cosponsors, lines 1079-1096
BillCosponsors ==
    /\ fn = "get_bill"
    /\ res.at = "cosponsors"
    /\ \E o \in FetchOutcomes :
         /\ res' = [Got(res, CosponsorsPath, o) EXCEPT
                      !.at = AfterCosponsors(arg),
                      !.cosponsors = IF o.ok THEN ExtractItems(arg.served)
                                     ELSE @]
         /\ fn' = IF o.ok THEN "get_bill" ELSE "get_bill raised"
    /\ UNCHANGED <<arg, again>>
    /\ UNCHANGED <<engine_vars, page_vars, multi_vars>>

\* line 879 and get_bill_amendments, lines 1109-1110: the list is empty
BillAmendments ==
    /\ fn = "get_bill"
    /\ res.at = "amendments"
    /\ \E o \in FetchOutcomes :
         /\ res' = [Got(res, AmendmentsPath, o) EXCEPT !.at = "end"]
         /\ fn' = IF o.ok THEN "get_bill" ELSE "get_bill raised"
    /\ UNCHANGED <<arg, again>>
    /\ UNCHANGED <<engine_vars, page_vars, multi_vars>>

\* _dict_to_member (258-278): the Member built from a member mapping
DictToMember(member_dict) ==
    [bioguide_id |-> Get(member_dict, "bioguideId"),
     first_name |-> Get(member_dict, "firstName"),
     api_url |-> Get(member_dict, "url"),
     raw |-> member_dict]

\* x in list
InList(x, list) == \E i \in 1..Len(list) : list[i] = x

\* mutant: the sponsor object is appended whenever the payload has one
AppendsSponsor_always(sponsor_obj, sponsors_list) == Truthy(sponsor_obj)

\* line 867
AppendsSponsor(sponsor_obj, sponsors_list) ==
    Truthy(sponsor_obj) /\ ~InList(sponsor_obj, sponsors_list)

\* lines 858-868
Sponsors(b_sponsors, b_sponsor) ==
    LET sponsors_list == ExtractItems(b_sponsors)
        sponsors == [i \in 1..Len(sponsors_list) |->
                       DictToMember(sponsors_list[i])]
    IN IF AppendsSponsor(b_sponsor, sponsors_list)
         THEN Append(sponsors, DictToMember(b_sponsor))
         ELSE sponsors

\* lines 834-837, 857-868 and 881-923: the Bill returned
BillReturn ==
    /\ fn = "get_bill"
    /\ res.at = "end"
    /\ fn' = "get_bill returned"
    /\ res' = [res EXCEPT !.bill =
                 [cosponsors_count |-> IF arg.cosponsors.has
                                         THEN IntV(arg.cosponsors.count)
                                         ELSE NoneV,
                  cosponsors_url |-> CosponsorsUrl(arg),
                  cosponsors |-> res.cosponsors,
                  amendments_url |-> UrlWithKey(arg.amendments_url),
                  sponsors |-> Sponsors(arg.sponsors, arg.sponsor)]]
    /\ UNCHANGED <<arg, again>>
    /\ UNCHANGED <<engine_vars, page_vars, multi_vars>>

BillNext ==
    \/ BillDetail
    \/ BillCosponsors
    \/ BillAmendments
    \/ BillReturn

BillSpec == BillInit /\ [][BillNext]_vars

\* ================================= the URLs of one _paged walk (289-342)
\* One walk of "hearing/118" with the default base_url.  The provider answers
\* each absolute URL it is asked for with a page of n items whose
\* pagination.next is a link, is the empty string or is missing.  A link is
\* written by the provider as it likes: with or without the api_key
\* parameter, and it may name a page already served.

\* the query string requests writes for the params of a call
ParamKeyOrder == <<"api_key", "limit", "congress", "chamber">>
ParamText(v) == IF v.t = "int" THEN ToString(v.n) ELSE v.s
ParamFields(params) ==
    LET ks == SelectSeq(ParamKeyOrder, LAMBDA k : k \in DOMAIN params)
    IN [i \in 1..Len(ks) |-> Field(ks[i], ParamText(params[ks[i]]), "canon")]
\* the absolute URL a request goes to: its url with its params appended
PreparedUrl(req) ==
    UrlV(req.url.netloc, req.url.path, req.url.query \o ParamFields(req.params))

FirstPageUrl == PreparedUrl(GetRequest(CongressApiNetloc, NoMap))
OffsetField(n) == Field("offset", n, "canon")
KeyField == Field("api_key", ApiKey, "canon")
PageLink(query) == UrlV(CongressApiNetloc, "/v3/hearing/118", query)
\* next links as the provider writes them
RawLinks ==
    {FirstPageUrl,
     PageLink(<<OffsetField("250")>>),
     PageLink(<<OffsetField("250"), KeyField>>),
     PageLink(<<OffsetField("500")>>)}
\* the absolute URLs the walk can come to ask for
CursorPages == {FirstPageUrl} \cup {UrlWithKey(l) : l \in RawLinks}
CursorDocs == [next : RawLinks \cup {NoUrl, EmptyUrl}, n : {0, 1}]
CursorCalls == {[f |-> "_paged", page |-> p] : p \in [CursorPages -> CursorDocs]}
\* the walk: where it stands, the link in next_url, the set of line 313,
\* the absolute URLs requested so far, in order, and the items yielded
CursorStart ==
    [pc |-> "first", next_url |-> NoUrl, seen_urls |-> {}, fetched |-> <<>>,
     yielded |-> 0]

CursorInit ==
    /\ EngineIdle
    /\ PageIdle
    /\ MultiIdle
    /\ fn = "none"
    /\ arg \in CursorCalls
    /\ res = CursorStart
    /\ again = NoResult

\* lines 295-311 and 328-342: the walk after the page at u was requested.
\* A fault of the request leaves the generator; the items of the page are
\* yielded, and a page without a next link ends the walk
AfterPage(r, u, ok) ==
    [r EXCEPT !.fetched = Append(@, u),
              !.yielded = IF ok THEN @ + arg.page[u].n ELSE @,
              !.next_url = IF ok THEN arg.page[u].next ELSE NoUrl,
              !.pc = IF ~ok THEN "raised"
                     ELSE IF UrlTruthy(arg.page[u].next) THEN "loop"
                     ELSE "done"]

\* lines 290-313: the first page is requested through _get; seen_urls
\* starts empty
CursorFirst ==
    /\ fn = "none"
    /\ arg.f = "_paged"
    /\ fn' = "_paged"
    /\ \E ok \in BOOLEAN : res' = AfterPage(res, FirstPageUrl, ok)
    /\ UNCHANGED <<arg, again>>
    /\ UNCHANGED <<engine_vars, page_vars, multi_vars>>

\* lines 316 and 320: the link is looked up and recorded as the provider
\* wrote it
Recorded(next_url) == next_url

\* lines 314-342: one turn of the loop
CursorLoop ==
    /\ fn = "_paged"
    /\ res.pc = "loop"
    /\ IF Repeated(Recorded(res.next_url), res.seen_urls)
         THEN res' = [res EXCEPT !.pc = "cycle"]
         ELSE \E ok \in BOOLEAN :
                res' = AfterPage([res EXCEPT !.seen_urls =
                                    @ \cup {Recorded(res.next_url)}],
                                 NextPageRequest(res.next_url).url, ok)
    /\ UNCHANGED <<fn, arg, again>>
    /\ UNCHANGED <<engine_vars, page_vars, multi_vars>>

CursorNext == CursorFirst \/ CursorLoop

CursorSpec == CursorInit /\ [][CursorNext]_vars

\* =================== one list item in the loop of iter_entities (479-507)
\* A hearing list item carries its key fields and no title; the detail of
\* the hearing carries the title and the citation.  A predicate reads a
\* mapping: "titled" asks for the title "A", "cited" for a citation,
\* "house" for the chamber, which list item and detail both carry.
ListItem(jn) ==
    MapV([jacketNumber |-> jn, congress |-> IntV(118), chamber |-> StrV("House"),
          url |-> StrV("hearing/118/house/1")])
HearingDetail(title, citation) ==
    MapV([jacketNumber |-> IntV(1), congress |-> IntV(118),
          chamber |-> StrV("House"), title |-> StrV(title), citation |-> citation])
ListItems == {ListItem(IntV(1)), ListItem(NoneV)}
\* what the detail endpoint answers: {"hearing": {...}}, or a payload
\* without that key
DetailPayloads ==
    {MapV([hearing |-> HearingDetail(t, c)]) : t \in {"A", "B"}, c \in {NoneV, StrV("H.Hrg.1")}}
    \cup {EmptyMap}
Predicates == {"titled", "cited", "house"}
Where(where, d) ==
    CASE where = "titled" -> Get(d, "title") = StrV("A")
      [] where = "cited" -> Truthy(Get(d, "citation"))
      [] where = "house" -> Get(d, "chamber") = StrV("House")

\* get_hearing, lines 629 and 636-648: the typed object of a detail payload
GetHearing(payload) ==
    LET hearing == IF "hearing" \in DOMAIN payload.m THEN payload.m["hearing"]
                   ELSE EmptyMap
    IN [jacket_number |-> Get(hearing, "jacketNumber"),
        title |-> Get(hearing, "title"),
        citation |-> Get(hearing, "citation"),
        raw |-> hearing]
NoFull == [jacket_number |-> NoneV, title |-> NoneV, citation |-> NoneV, raw |-> NoneV]
\* full.__dict__
AttributeMapping(full) ==
    MapV([jacket_number |-> full.jacket_number, title |-> full.title,
          citation |-> full.citation, raw |-> full.raw])

\* mutant: with hydration too the predicate is given the list item
Probe_item(list_item, full) == list_item

\* lines 499-503: the mapping the predicate is given when hydrating
Probe(list_item, full) ==
    IF IsDict(full.raw) THEN full.raw ELSE AttributeMapping(full)

ItemCalls ==
    [f : {"iter_entities item"}, hydrate : BOOLEAN, where : Predicates \cup {"none"},
     continue_on_error : BOOLEAN, item : ListItems, detail : DetailPayloads,
     ok : BOOLEAN]
\* what the handling of the item did: the detail fetches made, the mappings
\* the predicate was applied to, what was yielded and whether a fault left
\* the stream
Handled(fetches, probed, kind, x, full, reraised) ==
    [fetches |-> fetches, probed |-> probed, kind |-> kind, item |-> x,
     full |-> full, raised |-> reraised]
NotHandled == Handled(0, <<>>, "none", NoneV, NoFull, FALSE)

ItemInit ==
    /\ EngineIdle
    /\ PageIdle
    /\ MultiIdle
    /\ fn = "none"
    /\ arg \in ItemCalls
    /\ res = NotHandled
    /\ again = NoResult

\* lines 481-482 and 506-507: without hydration the predicate is given the
\* list item, and the list item is yielded
ItemFast ==
    /\ fn = "none"
    /\ arg.f = "iter_entities item"
    /\ ~arg.hydrate
    /\ fn' = "item handled"
    /\ res' = IF arg.where = "none"
                THEN Handled(0, <<>>, "raw", arg.item, NoFull, FALSE)
                ELSE IF Where(arg.where, arg.item)
                  THEN Handled(0, <<arg.item>>, "raw", arg.item, NoFull, FALSE)
                  ELSE Handled(0, <<arg.item>>, "none", NoneV, NoFull, FALSE)
    /\ UNCHANGED <<arg, again>>
    /\ UNCHANGED <<engine_vars, page_vars, multi_vars>>

\* lines 484-505: with hydration the detail is fetched for an item that has
\* its key fields, the predicate is given the resolved object's mapping,
\* and the resolved object is yielded
ItemHydrate ==
    /\ fn = "none"
    /\ arg.f = "iter_entities item"
    /\ arg.hydrate
    /\ fn' = "item handled"
    /\ res' = IF ~HasKeys(arg.item)
                THEN Handled(0, <<>>, "none", NoneV, NoFull, FALSE)
                ELSE IF ~arg.ok
                  THEN Handled(1, <<>>, "none", NoneV, NoFull, ~Continues(arg))
                ELSE LET full == GetHearing(arg.detail)
                         probe == Probe(arg.item, full)
                     IN IF arg.where = "none"
                          THEN Handled(1, <<>>, "full", NoneV, full, FALSE)
                          ELSE IF Where(arg.where, probe)
                            THEN Handled(1, <<probe>>, "full", NoneV, full, FALSE)
                            ELSE Handled(1, <<probe>>, "none", NoneV, NoFull, FALSE)
    /\ UNCHANGED <<arg, again>>
    /\ UNCHANGED <<engine_vars, page_vars, multi_vars>>

ItemNext == ItemFast \/ ItemHydrate

ItemSpec == ItemInit /\ [][ItemNext]_vars

\* ======================================================== claims C1..C10

\* C1: one call of _request_with_backoff issues at most max_tries HTTP
\* requests (none when max_tries <= 0), and it never returns without a
\* response: a call in which no attempt returned one ends by raising a fault.
C1_AtMostMaxTries ==
    /\ h.nreq <= Max(0, cfg.max_tries)
    /\ attempt <= Max(0, cfg.max_tries)
    /\ pc = "returned" => result # NoResp /\ result.att = h.nreq - 1
    /\ (pc \in {"returned", "raised"} /\ result = NoResp) =>
           pc = "raised" /\ raised.type # "None"

C1_Witness ==
    /\ pc = "raised"
    /\ cfg.max_tries = MaxTriesBound
    /\ h.nreq = cfg.max_tries
    /\ result = NoResp

\* C2: a non-2xx status outside the retryable set (404) makes the call raise
\* at once: no backoff sleep and no further attempt follow that response.
C2_NonRetryableRaisesAtOnce ==
    h.last.kind = "error_status" =>
        /\ pc = "raised"
        /\ h.last.sleep = "none"
        /\ raised = HTTPError(h.last.status, url)

\* C3: k retryable failures (k < max_tries) followed by a 2xx: the call does
\* not give up before the 2xx, returns that 2xx without raising after exactly
\* k+1 requests, and issues no request and takes no sleep after it.
C3_ReturnsAfterRetries ==
    /\ [](/\ (pc = "raised" /\ h.retryable = h.nreq) => h.retryable >= cfg.max_tries
          /\ (pc = "returned" /\ h.last.kind = "ok") =>
                 /\ IsSuccess(result.status)
                 /\ result.status = h.last.status
                 /\ raised = None
                 /\ (h.retryable = attempt => h.nreq = h.retryable + 1))
    /\ [][h.last.kind = "ok" =>
            \/ h' = NoHistory
            \/ /\ h' = h
               /\ g' = g
               /\ pc' = "returned"]_vars

C3_Witness ==
    /\ pc = "returned"
    /\ IsSuccess(result.status)
    /\ h.retryable = 1
    /\ h.nreq = 2

\* C4 as stated: on exhaustion the call raises the last retryable HTTP fault
\* captured by any attempt, whatever the final attempt was, and the generic
\* exhaustion fault only when no attempt captured one (stated for the calls
\* whose attempts all failed with a retryable status or a connection fault).
C4_Original ==
    (pc = "raised" /\ h.retryable = h.nreq) =>
        raised = IF h.captured # None THEN h.captured
                 ELSE ExhaustedFault(url, cfg.max_tries)

\* C4 amended: on exhaustion the call raises the HTTP fault recorded by the
\* final attempt when that attempt ended in an HTTP status fault, and the
\* generic exhaustion fault naming the URL and the attempt count when the
\* final attempt ended in a connection or timeout fault, or when no attempt
\* was made, even if an earlier attempt captured an HTTP fault.
C4_RaisesFaultOfFinalAttempt ==
    pc = "raised" =>
        CASE h.last.kind \in {"retryable", "error_status"} ->
                 raised = HTTPError(h.last.status, url)
          [] h.last.kind = "fault" ->
                 raised = ExhaustedFault(url, cfg.max_tries)
          [] OTHER ->
                 h.nreq = 0 /\ raised = ExhaustedFault(url, cfg.max_tries)

C4_Witness ==
    /\ pc = "raised"
    /\ h.captured # None
    /\ h.last.kind = "fault"
    /\ raised = ExhaustedFault(url, cfg.max_tries)

\* the Retry-After hint of a header received at time t: a number of seconds,
\* or the distance to an HTTP-date; zero when there is none
Hint(hdr, t) ==
    IF hdr.kind = "num" THEN hdr.v
    ELSE IF hdr.kind = "date" THEN hdr.v - t
    ELSE 0

BackoffBound(n) ==
    IF cfg.backoff_base * Pow2(n) < cfg.backoff_cap
      THEN cfg.backoff_base * Pow2(n) ELSE cfg.backoff_cap

\* C5: after a retryable status the sleep before the next attempt is exactly
\* the Retry-After hint when the hint is present and > 0 (no backoff sleep
\* then), otherwise a backoff sleep for the zero-based index of the attempt;
\* after a connection or timeout fault it is always that backoff sleep.
C5_SleepBeforeRetry ==
    h.last.kind \in {"retryable", "fault"} =>
        /\ h.last.att = attempt - 1
        /\ now = h.last.at + h.last.dur
        /\ IF h.last.kind = "retryable" /\ Hint(h.last.hdr, h.last.at) > 0
             THEN /\ h.last.sleep = "retry_after"
                  /\ h.last.dur = Hint(h.last.hdr, h.last.at)
             ELSE /\ h.last.sleep = "backoff"
                  /\ 0 <= h.last.dur
                  /\ h.last.dur <= BackoffBound(h.last.att)

C5_Witness ==
    /\ h.last.kind = "retryable"
    /\ h.last.hdr.kind = "date"
    /\ h.last.sleep = "retry_after"
    /\ h.last.dur = 2

\* C6: the token count stays in [0, capacity]; it decreases only at the
\* commit of a gated call, by at most one token, and increases only there,
\* by at most the refill for the time elapsed since the last refill.
C6_TokensInRange ==
    /\ [](0 <= _tokens /\ _tokens <= hourly_capacity * TokenUnit)
    /\ [][/\ _tokens' < _tokens =>
                pc = "gate_commit" /\ _tokens - _tokens' <= TokenUnit
          /\ _tokens' > _tokens =>
                /\ pc = "gate_commit"
                /\ (_tokens' - _tokens) * SecondsPerHour
                     <= (_last_refill' - _last_refill) * hourly_capacity * TokenUnit]_vars

C6_Witness ==
    /\ pc = "http"
    /\ gates >= 2
    /\ _last_refill > 0
    /\ 0 < _tokens
    /\ _tokens < hourly_capacity * TokenUnit

\* C7: from a fresh client with no time elapsing between calls, none of the
\* first `capacity` gated calls takes the exhaustion sleep and the
\* (capacity+1)-th does.
C7_ExactlyCapacityCalls ==
    now = 0 =>
        /\ pc = "gate_exhaust" => gates = hourly_capacity + 1
        /\ pc = "gate_commit" => gates <= hourly_capacity
        /\ gates <= hourly_capacity + 1

C7_Witness ==
    /\ now = 0
    /\ pc = "gate_exhaust"
    /\ hourly_capacity = MaxRph
    /\ gates = hourly_capacity + 1

\* C8: a gated call returns only once the refilled token count is at least
\* 1.0, and commits exactly (refilled count - 1) with the new refill
\* timestamp: exactly one token is consumed, also after the exhaustion sleep.
C8_ReturnsWithAToken ==
    (pc = "http" /\ ~BucketDisabled) =>
        /\ g.tokens >= TokenUnit
        /\ _tokens = g.tokens - TokenUnit
        /\ _last_refill = g.now_m

\* C9: the gate never rejects: every _gate call returns normally, after at
\* most one politeness sleep and at most one exhaustion sleep.
C9_GateReturns ==
    /\ (pc = "gate_polite") ~> (pc = "http")
    /\ [](g.polite <= 1 /\ g.exhaust <= 1)
    /\ [](pc \in {"gate_bucket", "gate_exhaust", "gate_commit"} =>
            ENABLED GateStep)

C9_Witness ==
    /\ pc = "http"
    /\ g.polite = 1
    /\ g.exhaust = 1

\* C10: with the hourly budget configured to zero (req_per_hour = 0) the
\* token bucket is a no-op: no exhaustion sleep is taken and the token count
\* and the refill timestamp stay as constructed.
C10_ZeroBudgetIsNoOp ==
    cfg.req_per_hour <= 0 =>
        /\ pc # "gate_exhaust" /\ g.exhaust = 0
        /\ _tokens = InitialTokens(hourly_capacity)
        /\ _last_refill = 0

\* ======================================================= claims C11..C20

\* the pages a provider makes a walk visit: from the first page along the
\* next links, up to the page without a link or with a link seen before
RECURSIVE Follow(_, _, _)
Follow(p, u, followed) ==
    IF p[u].pag \in Links /\ p[u].pag \notin followed
      THEN <<u>> \o Follow(p, p[u].pag, followed \cup {p[u].pag})
      ELSE <<u>>
Walked(p) == Follow(p, "first", {})
\* a finite chain: pairwise distinct next links, no pagination on the last
IsChain(p) == p[Walked(p)[Len(Walked(p))]].pag \in NoPagination
\* the items of the pages us, page after page
RECURSIVE ItemsOf(_, _, _)
ItemsOf(p, cg, us) ==
    IF us = <<>> THEN <<>>
    ELSE DocItems(p[Head(us)], cg, Head(us)) \o ItemsOf(p, cg, Tail(us))
IsPrefix(a, b) == Len(a) <= Len(b) /\ a = SubSeq(b, 1, Len(a))
WalkOver == pg_pc \in {"done", "cycle"} \/ st_pc = "raised"

\* C11: served a finite chain of n pages with pairwise distinct next links
\* and no pagination on the last one, JSON or XML in any mix, _paged yields
\* the pages' items in page order, each once, with exactly n HTTP requests
\* when no attempt fails, and the walk comes to its end.
C11_ChainYieldsEveryItemOnce ==
    /\ [](IsChain(provider) /\ net.failed = 0 =>
            /\ IsPrefix(listed, ItemsOf(provider, scope, Walked(provider)))
            /\ out \o (IF it = NoItem THEN <<>> ELSE <<it>>) = listed
            /\ net.http = net.pages
            /\ net.pages <= Len(Walked(provider))
            /\ st_pc # "raised" /\ pg_pc # "cycle"
            /\ pg_pc = "done" =>
                 /\ out = ItemsOf(provider, scope, Walked(provider))
                 /\ net.http = Len(Walked(provider)))
    /\ (IsChain(provider) ~> (pg_pc = "done" \/ net.failed > 0))

\* three pages, JSON then XML then JSON, walked to the end without a failure
C11_Witness ==
    /\ pg_pc = "done"
    /\ net.failed = 0
    /\ net.http = 3
    /\ provider["first"].fmt = "json"
    /\ provider["first"].pag = "p2"
    /\ provider["p2"].fmt = "xml"
    /\ Len(provider["p2"].keyed) = 1
    /\ provider["p3"].fmt = "json"
    /\ Len(out) = 5

\* the distinct next links the provider writes
NextLinks(p) == {p[u].pag : u \in PageUrls} \cap Links

\* C12: when every fetch succeeds a _paged walk terminates; a next link
\* that repeats one already followed ends the walk as a normal end of
\* stream, with no fault raised and the items of the pages fetched so far
\* yielded, and the number of page fetches is at most one plus the number
\* of distinct next links.
C12_WalkTerminates ==
    /\ [](/\ net.pages <= 1 + Cardinality(NextLinks(provider))
          /\ net.pages <= 1 + Cardinality(seen_urls)
          /\ pg_pc = "cycle" =>
               /\ st_pc # "raised"
               /\ st_raised = None
               /\ ~IsChain(provider)
               /\ listed = ItemsOf(provider, scope, Walked(provider))
               /\ net.pages = Len(Walked(provider)))
    /\ <>WalkOver

\* the third page links back to the second: the walk ended there
C12_Witness ==
    /\ pg_pc = "cycle"
    /\ net.pages = 3
    /\ provider["p3"].pag = "p2"
    /\ Len(out) >= 1
    /\ it = NoItem

\* C13: _extract_items maps each collection-block shape to a list: None to
\* [], a bare list to that list, {item: list} and {items: list} to the list,
\* {item: dict} and {items: dict} to the one-element list of the dict, and
\* every other shape (empty dict, dict whose item/items hold neither a list
\* nor a dict, scalar, string) to [], never raising.
C13_ExtractItemsByShape ==
    fn = "_extract_items" =>
      LET b == arg.x
          r == res.x.q
          Holds(k) == IsDict(b) /\ k \in DOMAIN b.m
                        /\ (IsList(b.m[k]) \/ IsDict(b.m[k]))
      IN /\ res.x.t = "list"
         /\ IsNone(b) => r = <<>>
         /\ IsList(b) => r = b.q
         /\ (IsDict(b) /\ DOMAIN b.m = {"item"} /\ IsList(b.m["item"]))
              => r = b.m["item"].q
         /\ (IsDict(b) /\ DOMAIN b.m = {"item"} /\ IsDict(b.m["item"]))
              => r = <<b.m["item"]>>
         /\ (IsDict(b) /\ DOMAIN b.m = {"items"} /\ IsList(b.m["items"]))
              => r = b.m["items"].q
         /\ (IsDict(b) /\ DOMAIN b.m = {"items"} /\ IsDict(b.m["items"]))
              => r = <<b.m["items"]>>
         /\ (~IsNone(b) /\ ~IsList(b) /\ ~Holds("item") /\ ~Holds("items"))
              => r = <<>>

\* a lone dict under "items" came back wrapped in a list
C13_Witness ==
    /\ fn = "_extract_items"
    /\ arg.x = MapV([items |-> EntryA])
    /\ res.x = ListV(<<EntryA>>)

\* number of api_key fields of a written query, and their values
KeyCount(query) == Cardinality({i \in 1..Len(query) : query[i].k = "api_key"})
KeyValues(query) == {query[i].v : i \in {j \in 1..Len(query) : query[j].k = "api_key"}}

\* C14: _url_with_key adds an api_key parameter to any URL whose host is
\* the host of the API the client was built for, leaves exactly one api_key
\* with its existing value where one was present, gives the same result
\* when applied to its own result, and returns unchanged None, the empty
\* URL and any URL on another host.
C14_KeyOnApiHostOnly ==
    fn \in {"_url_with_key", "_url_with_key twice"} =>
      LET u == arg.u
          r == res.u
          same_host == u.t = "url" /\ u.netloc = arg.base
      IN /\ same_host =>
              /\ r.t = "url"
              /\ KeyCount(r.query) = 1
              /\ KeyCount(u.query) > 0 => KeyValues(r.query) \subseteq KeyValues(u.query)
         /\ ~same_host => r = u
         /\ fn = "_url_with_key twice" => again = res

\* the entries of the trail that a test keeps, and the items they are about
Kept(tr, Test(_)) == SelectSeq(tr, Test)
ItemsIn(q) == [i \in 1..Len(q) |-> q[i].item]
Faulted(e) == e.detail = "fault"
HasFault(tr) == \E i \in 1..Len(tr) : Faulted(tr[i])
\* resolved and accepted: its detail was fetched and no predicate rejected it
Resolved(e) == e.detail = "ok" /\ e.pred
ResolvedOf(tr) == [i \in 1..Len(Kept(tr, Resolved)) |-> FullOf(Kept(tr, Resolved)[i].item)]

\* C15: with hydrate=True and continue_on_error=True a detail fetch that
\* raises a transport fault skips that item only: the stream does not raise
\* for it and yields, in their original order, the resolved objects of the
\* other items (those whose detail was fetched and that no predicate or
\* missing key field ruled out).
C15_DetailFaultSkipsTheItem ==
    (args.hydrate /\ args.continue_on_error) =>
      /\ st_raised # TransportFault("detail")
      /\ out = ResolvedOf(trail)
      /\ HasFault(trail) /\ st_pc = "raised" => st_raised.url \in PageUrls

\* the first of three items faulted and the stream went on to its end
C15_Witness ==
    /\ args.hydrate /\ args.continue_on_error
    /\ st_pc = "done"
    /\ Len(trail) >= 3
    /\ Faulted(trail[1])
    /\ Len(out) >= 2

\* C16: with hydrate=True and continue_on_error=False the first detail
\* fetch that raises a transport fault is propagated to the consumer and the
\* stream stops: what was yielded is exactly the resolved items before the
\* failing one, and nothing is yielded or requested afterwards.
C16_DetailFaultStopsTheStream ==
    /\ []((args.hydrate /\ ~args.continue_on_error /\ HasFault(trail)) =>
            /\ st_pc = "raised"
            /\ st_raised = TransportFault("detail")
            /\ Faulted(trail[Len(trail)])
            /\ ~HasFault(SubSeq(trail, 1, Len(trail) - 1))
            /\ out = ResolvedOf(SubSeq(trail, 1, Len(trail) - 1)))
    /\ [][st_pc = "raised" => (out' = out /\ net' = net /\ st_pc' = st_pc)]_vars

\* the second item faulted after the first was yielded
C16_Witness ==
    /\ args.hydrate /\ ~args.continue_on_error
    /\ st_pc = "raised"
    /\ Len(trail) = 2
    /\ Faulted(trail[2])
    /\ Len(out) = 1

Accepted(e) == e.pred
\* C17: with hydrate=False no detail fetch is issued, every HTTP request is
\* an attempt of a list-page fetch, and the output is exactly the raw list
\* items for which the predicate holds (all of them without a predicate),
\* in order, each the unmodified mapping.
C17_FastPathListsOnly ==
    ~args.hydrate =>
      /\ net.details = 0
      /\ net.http <= net.pages + net.failed
      /\ ItemsIn(trail) \o (IF it = NoItem THEN <<>> ELSE <<it>>) = listed
      /\ ItemsIn(out) = ItemsIn(Kept(trail, Accepted))
      /\ \A i \in 1..Len(out) : out[i].kind = "raw"
      /\ ~args.where => ItemsIn(out) = ItemsIn(trail)

\* a predicate rejected one raw item and accepted another
C17_Witness ==
    /\ ~args.hydrate /\ args.where
    /\ st_pc = "done"
    /\ \E i \in 1..Len(trail) : ~trail[i].pred
    /\ Len(out) >= 1
    /\ net.pages >= 2

\* a is b with entries left out
RECURSIVE IsSubseq(_, _)
IsSubseq(a, b) ==
    IF a = <<>> THEN TRUE
    ELSE IF b = <<>> THEN FALSE
    ELSE IF Head(a) = Head(b) THEN IsSubseq(Tail(a), Tail(b))
    ELSE IsSubseq(a, Tail(b))
\* the walks of the congresses cs, one after the other
RECURSIVE Chained(_, _)
Chained(p, cs) ==
    IF cs = <<>> THEN <<>>
    ELSE ItemsOf(p, Head(cs), Walked(p)) \o Chained(p, Tail(cs))

\* C18: what iter_entities yields is an order-preserving subsequence of the
\* walks' items chained in scope order: nothing is reordered, duplicated or
\* yielded before an item that precedes it.
C18_YieldsInListingOrder ==
    /\ IsPrefix(listed, Chained(provider, Congresses(args)))
    /\ IsSubseq(ItemsIn(out), listed)
    /\ \A i, j \in 1..Len(out) : i # j => out[i].item # out[j].item

\* items of two pages and of two congresses were yielded
C18_Witness ==
    /\ st_pc = "done"
    /\ Len(walks) = 2
    /\ net.pages = 4
    /\ Len(out) = 4

\* the congresses of the inclusive range between a and b, ascending
Ascending(a, b) ==
    LET lo == IF a <= b THEN a ELSE b
        hi == IF a <= b THEN b ELSE a
    IN [i \in 1..(hi - lo + 1) |-> lo + i - 1]
Scopes(a) ==
    IF a.congress_range # <<>> THEN Ascending(a.congress_range[1], a.congress_range[2])
    ELSE IF a.congress >= 1 THEN <<a.congress>>
    ELSE <<>>

\* C19: given congress_range=(a, b) in either order iter_entities runs one
\* walk per congress of min(a,b)..max(a,b), ascending, whatever the congress
\* argument is; given only congress=c it runs one walk, for c; given
\* neither it raises a ValueError before any HTTP request.
C19_OneWalkPerCongress ==
    /\ IsPrefix(walks, Scopes(args))
    /\ st_pc = "done" => walks = Scopes(args)
    /\ net.pages >= Len(walks) - 1
    /\ Scopes(args) = <<>> =>
         /\ st_pc \in {"start", "raised"}
         /\ net.http = 0
         /\ st_pc = "raised" => st_raised = ValueError
    /\ Scopes(args) # <<>> => st_raised # ValueError

\* the range (2, 1) with congress=2 was walked as 1 then 2
C19_Witness ==
    /\ args.congress_range = <<2, 1>>
    /\ args.congress = 2
    /\ st_pc = "done"
    /\ walks = <<1, 2>>

\* C20: _unwrap_root replaces the page by its inner mapping if and only if
\* the page has exactly the single top-level key root and its value is a
\* mapping; every other page is returned unchanged.
C20_UnwrapsOnlyASoleRoot ==
    fn = "_unwrap_root" =>
      LET d == arg.x
      IN IF IsDict(d) /\ DOMAIN d.m = {"root"} /\ IsDict(d.m["root"])
           THEN res.x = d.m["root"]
           ELSE res.x = d

\* ======================================================= claims C21..C30

\* C21: _parse_payload tries the JSON decode first and consults the XML
\* decoder only when the JSON decode fails; the fault "xmltodict is not
\* installed" is raised exactly for a response that is not JSON on a client
\* without xmltodict, so every JSON response is parsed with or without it.
C21_XmlDecoderOnlyOnFallback ==
    fn = "_parse_payload" =>
      LET doc == arg.doc IN
      /\ res.tried[1] = "json"
      /\ (Len(res.tried) > 1 => doc.fmt # "json")
      /\ (doc.fmt = "json" =>
            res.x = JsonPayload(doc, 1, "first") /\ res.tried = <<"json">>)
      /\ (res.x = RuntimeError <=> (doc.fmt # "json" /\ ~arg.xmltodict))
      /\ (doc.fmt = "xml" /\ arg.xmltodict =>
            res.x = XmlPayload(doc, 1, "first"))

\* a JSON response parsed by a client without xmltodict
C21_Witness ==
    /\ fn = "_parse_payload"
    /\ arg.doc.fmt = "json"
    /\ ~arg.xmltodict
    /\ ~IsError(res.x)
    /\ Len(arg.doc.keyed) = 2

\* C22: for every header value _parse_retry_after returns a delay that is
\* not negative: a number of seconds gives that number, an HTTP-date gives
\* max(0, date - now), an empty or unparseable value gives zero.
C22_DelayIsNeverNegative ==
    fn = "_parse_retry_after" =>
      /\ res.n >= 0
      /\ (arg.hdr.kind = "num" => res.n = arg.hdr.v)
      /\ (arg.hdr.kind = "date" => res.n = Max(0, arg.hdr.v - arg.t))
      /\ (arg.hdr.kind \in {"absent", "junk"} => res.n = 0)

\* C23: for every attempt index n >= 0 the sleep chosen by _sleep_backoff
\* lies in [0, min(backoff_cap, backoff_base * 2^n)]: it is never negative,
\* never above backoff_cap, and the upper bound does not decrease with n.
C23_BackoffSleepWithinBounds ==
    fn = "_sleep_backoff" =>
      LET Upper(n) == Min(cfg.backoff_cap, cfg.backoff_base * Pow2(n)) IN
      /\ 0 <= res.n
      /\ res.n <= Upper(arg.n)
      /\ res.n <= cfg.backoff_cap
      /\ now = res.n
      /\ BackoffChoices(arg.n) \subseteq 0..Upper(arg.n)
      /\ \A n \in 0..MaxAttempt :
           /\ BackoffUpper(n) = Upper(n)
           /\ BackoffUpper(n) <= BackoffUpper(n + 1)

\* an attempt whose exponential bound is above the cap sleeps the cap
C23_Witness ==
    /\ fn = "_sleep_backoff"
    /\ arg.n = MaxAttempt
    /\ cfg.backoff_base * Pow2(arg.n) > cfg.backoff_cap
    /\ cfg.backoff_cap > 0
    /\ res.n = cfg.backoff_cap

C25_LastCallsAreSpaced ==
    [][/\ (pc = "gate_polite" /\ cfg.min_interval > 0) =>
            /\ _last_call' = now'
            /\ _last_call' >= _last_call + cfg.min_interval
            /\ (g'.polite = 0 <=> now' = now)
       /\ _last_call' # _last_call =>
            pc = "gate_polite" /\ cfg.min_interval > 0]_vars

\* a gated call that found the interval already over and did not sleep,
\* after one that slept: both recorded their time
C25_Witness ==
    /\ cfg.min_interval > 0
    /\ pc = "gate_bucket"
    /\ gates = 2
    /\ g.polite = 0
    /\ _last_call = now
    /\ now > cfg.min_interval

\* C26: the read-refill-consume sequence of _gate is not atomic.  When the
\* callers of one client take turns, the calls let through before any
\* forced sleep are `capacity` at most and every one of them took its token
\* from the committed count; the state in which more calls than that have
\* passed without a forced sleep is reachable only when callers interleave.
C26_SerializedGateLosesNoUpdate ==
    serialized =>
      /\ Slept = 0 => Passed <= hourly_capacity
      /\ (Slept = 0 /\ \A t \in Threads : th[t].pc \in {"out", "read", "refill", "sleep"}) =>
           _tokens = (hourly_capacity - Passed) * TokenUnit
      /\ Cardinality({t \in Threads : th[t].pc # "out"}) <= 1

\* two interleaved callers: an update of the count was lost, and more than
\* `capacity` calls passed with no forced sleep
C26_Witness ==
    /\ ~serialized
    /\ Slept = 0
    /\ now = 0
    /\ Passed > hourly_capacity
    /\ \A t \in Threads : th[t].pc = "out"

\* C27: a newly constructed client holds `capacity` tokens, and every
\* _paged generator starts with its own empty set of seen URLs: the set of
\* a walk holds the links this walk followed and no others, so a walk
\* fetches the pages it would fetch alone, whatever another walk of the
\* same client has visited before it or in between.
C27_SeenUrlsBelongToOneWalk ==
    /\ gates = 0 => _tokens = hourly_capacity * TokenUnit
    /\ \A w \in Walkers :
         /\ wk[w].pc = "new" => wk[w].seen_urls = {}
         /\ wk[w].seen_urls \subseteq
              {wk[w].pages[i] : i \in 2..Len(wk[w].pages)}
         /\ IsPrefix(wk[w].pages, Walked(provider))
         /\ wk[w].pc \in {"done", "cycle"} => wk[w].pages = Walked(provider)
         /\ wk[w].pc = "cycle" => wk[w].next_url \in wk[w].seen_urls

\* the first walk has followed both links; the second, started meanwhile,
\* has followed one of them and goes on to the other
C27_Witness ==
    /\ wk[1].pc \in {"done", "cycle"}
    /\ wk[1].seen_urls = Links
    /\ wk[2].pc = "loop"
    /\ Len(wk[2].pages) = 2
    /\ wk[2].next_url \in wk[1].seen_urls \ wk[2].seen_urls

\* C28: every request the client issues carries api_key: a request built
\* by _get carries api_key and limit and, beside them, exactly the caller's
\* parameters whose value is not None, with their values; a next-page
\* request of _paged carries api_key.
C28_EveryRequestCarriesTheKey ==
    /\ fn = "_get" =>
         LET given == {k \in DOMAIN arg.params : ~IsNone(arg.params[k])} IN
         /\ Carries(res, "api_key")
         /\ Carries(res, "limit")
         /\ DOMAIN res.params = {"api_key", "limit"} \cup given
         /\ \A k \in given : res.params[k] = arg.params[k]
         /\ res.params["api_key"] = StrV(ApiKey)
         /\ res.url.netloc = arg.base
    /\ fn = "next page" =>
         /\ Carries(res, "api_key")
         /\ res.url.netloc = arg.next.netloc

\* the raw item lacks a field its detail lookup needs
LacksKey(x) ==
    \E k \in {"jacketNumber", "congress", "chamber"} : IsNone(Get(x, k))
Fetches(tr) == Len(Kept(tr, LAMBDA e : e.detail \in {"ok", "fault"}))

WasFetched(path) == \E i \in 1..Len(res.gets) : res.gets[i] = path

\* C30: get_bill with hydrate=False issues one request, for the bill, and
\* returns a Bill whose cosponsors list is empty also when the payload
\* advertises a cosponsors URL and count; with hydrate=True it fetches the
\* cosponsors list as well exactly when the payload carries a cosponsors
\* URL.  (A request counts once, however often its attempts were retried.)
C30_CosponsorsOnlyWhenHydrating ==
    /\ fn \in {"get_bill", "get_bill returned", "get_bill raised"} =>
         /\ res.http - res.failed = Len(res.gets)
         /\ ~arg.hydrate => Len(res.gets) <= 1
         /\ WasFetched(CosponsorsPath) =>
              arg.hydrate /\ arg.cosponsors.url.t = "url"
    /\ fn = "get_bill returned" =>
         /\ res.gets[1] = BillPath
         /\ ~arg.hydrate =>
              /\ res.gets = <<BillPath>>
              /\ res.bill.cosponsors = <<>>
              /\ arg.cosponsors.has =>
                   /\ res.bill.cosponsors_count = IntV(arg.cosponsors.count)
                   /\ (res.bill.cosponsors_url.t = "url"
                         <=> arg.cosponsors.url.t = "url")
         /\ arg.hydrate =>
              /\ WasFetched(CosponsorsPath) <=> arg.cosponsors.url.t = "url"
              /\ res.bill.cosponsors =
                   IF WasFetched(CosponsorsPath) THEN ExtractItems(arg.served)
                   ELSE <<>>

\* hydrate=False: the payload advertised two cosponsors and their URL, one
\* request was made and the list returned is empty
C30_Witness ==
    /\ fn = "get_bill returned"
    /\ ~arg.hydrate
    /\ arg.cosponsors.count = MaxCosponsors
    /\ arg.cosponsors.url.netloc = CongressApiNetloc
    /\ res.bill.cosponsors_count = IntV(MaxCosponsors)
    /\ res.bill.cosponsors_url.t = "url"
    /\ res.bill.cosponsors = <<>>
    /\ res.gets = <<BillPath>>
    /\ res.http = 1

\* ======================================================== claims C31..C39

\* C31: the Bill returned by get_bill holds one Member per entry of the
\* payload's `sponsors` collection, in the collection's order, and after
\* them the Member of the `sponsor` object when the payload has one that
\* equals no entry of `sponsors`; a `sponsor` object equal to an entry adds
\* nothing.
C31_SponsorsConsolidated ==
    fn = "get_bill returned" =>
      LET entries == ExtractItems(arg.sponsors)
          members == res.bill.sponsors
          fresh == \A i \in 1..Len(entries) : entries[i] # arg.sponsor
      IN /\ Len(members) \in {Len(entries), Len(entries) + 1}
         /\ \A i \in 1..Len(entries) :
              /\ members[i].raw = entries[i]
              /\ members[i].bioguide_id = Get(entries[i], "bioguideId")
         /\ Len(members) = Len(entries) + 1 =>
              /\ fresh
              /\ members[Len(members)].raw = arg.sponsor
              /\ members[Len(members)].bioguide_id = Get(arg.sponsor, "bioguideId")
         /\ (fresh /\ arg.sponsor \in {MemberA, MemberA2, MemberB}) =>
              Len(members) = Len(entries) + 1

\* the sponsor object is the second entry of `sponsors`: two Members, in the
\* collection's order
C31_Witness ==
    /\ fn = "get_bill returned"
    /\ arg.sponsors = ListV(<<MemberB, MemberA>>)
    /\ arg.sponsor = MemberA
    /\ Len(res.bill.sponsors) = 2
    /\ res.bill.sponsors[1].bioguide_id = StrV("C001078")
    /\ res.bill.sponsors[2].raw = MemberA

\* the absolute URLs requested so far in the walk
FetchedUrls == {res.fetched[i] : i \in 1..Len(res.fetched)}
Refetched ==
    \E i, j \in 1..Len(res.fetched) : i < j /\ res.fetched[i] = res.fetched[j]

\* C32: at every point of a _paged walk the set of seen URLs is the set of
\* absolute URLs requested so far in the walk, and no absolute URL is
\* requested twice in one walk: not the first page's URL, and not a page
\* named by two next links that differ only in the api_key parameter.
C32_SeenUrlsAreTheFetchedUrls ==
    fn = "_paged" =>
      /\ res.seen_urls = FetchedUrls
      /\ ~Refetched

\* the page the walk stands after, and "the link's URL was already visited"
LastPage == arg.page[res.fetched[Len(res.fetched)]]
Visited(link) == UrlWithKey(link) \in FetchedUrls
WalkStands(r) == r.pc \in {"loop", "done", "cycle"}

\* C33: a _paged walk stops after a page exactly when the page's pagination
\* or its next URL is absent or empty, or the next URL was already visited
\* in the walk; otherwise, also after a page of zero items, the next page
\* is requested.
C33_WalkStopsExactlyOnNoFreshLink ==
    /\ [](fn = "_paged" /\ WalkStands(res) =>
            /\ res.pc = "done" <=> ~UrlTruthy(LastPage.next)
            /\ res.pc = "cycle" => Visited(res.next_url))
    /\ [][fn = "_paged" /\ res.pc = "loop" =>
            IF Visited(res.next_url)
              THEN res'.pc = "cycle" /\ res'.fetched = res.fetched
              ELSE /\ Len(res'.fetched) = Len(res.fetched) + 1
                   /\ res'.fetched[Len(res'.fetched)] = UrlWithKey(res.next_url)]_vars

\* C34: the backoff and Retry-After sleeps of one _request_with_backoff call
\* lie between its attempts: none follows the last of max_tries failed
\* attempts, so a call that raises after exhausting its attempts (there is
\* at least one) has slept at most max_tries - 1 times.
C34_NoSleepAfterFinalAttempt ==
    pc = "raised" /\ cfg.max_tries >= 1 =>
      /\ h.nsleep <= cfg.max_tries - 1
      /\ h.last.att = cfg.max_tries - 1 => h.last.sleep = "none"

\* the payload under "hearing" of the detail served for the item
DetailRaw ==
    IF "hearing" \in DOMAIN arg.detail.m THEN arg.detail.m["hearing"] ELSE EmptyMap

\* C35: with hydrate=True and a predicate, the predicate is never given the
\* raw list item: one detail fetch is made for a list item that has its key
\* fields, whatever the predicate would say of the list item, the predicate
\* is given the resolved object's raw payload (a mapping), and the resolved
\* object is yielded exactly when the predicate holds of that payload.
C35_PredicateSeesTheResolvedObject ==
    (fn = "item handled" /\ arg.hydrate /\ arg.where # "none") =>
      /\ \A i \in 1..Len(res.probed) : res.probed[i] # arg.item
      /\ res.fetches = IF LacksKey(arg.item) THEN 0 ELSE 1
      /\ res.probed = IF res.fetches = 1 /\ arg.ok THEN <<DetailRaw>> ELSE <<>>
      /\ res.kind # "raw"
      /\ res.kind = "full" <=>
           /\ res.fetches = 1
           /\ arg.ok
           /\ Where(arg.where, DetailRaw)
      /\ res.kind = "full" => res.full.raw = DetailRaw

\* the list item has no title, so the predicate fails on it; the detail has
\* the title asked for and the resolved object is yielded
C35_Witness ==
    /\ fn = "item handled"
    /\ arg.hydrate
    /\ arg.where = "titled"
    /\ ~Where(arg.where, arg.item)
    /\ res.fetches = 1
    /\ res.probed = <<DetailRaw>>
    /\ res.kind = "full"
    /\ res.full.title = StrV("A")

\* C36: _paged and iter_entities are lazy.  A request is issued only while
\* the consumer waits for the next object; the request for a further page
\* only after every item of the pages before it was handed over and dealt
\* with; the walk of the next scope value only after the walk before it is
\* exhausted; and a detail fetch only for the item just reached.  While the
\* consumer holds an object and asks for no other, nothing is requested.
C36_RequestsOnlyOnDemand ==
    [][/\ net' # net => ~handed /\ st_pc = "loop"
       /\ net'.pages > net.pages =>
            /\ items = <<>> /\ it = NoItem
            /\ Len(trail) = Len(listed)
       /\ walks' # walks =>
            /\ pg_pc \in {"idle", "done", "cycle"}
            /\ items = <<>> /\ it = NoItem
            /\ Len(trail) = Len(listed)
            /\ net' = net
       /\ net'.details > net.details =>
            /\ it # NoItem
            /\ Len(listed) = Len(trail) + 1
            /\ listed[Len(listed)] = it
            /\ net'.pages = net.pages
            /\ net'.details = net.details + 1
       /\ handed => (net' = net /\ out' = out /\ listed' = listed)]_vars

\* the consumer holds the one resolved entry of the first page; the second
\* page and the walk of the next congress have not been asked for
C36_Witness ==
    /\ handed
    /\ args.hydrate
    /\ Len(out) = 1
    /\ provider["first"].pag = "p2"
    /\ net.pages = 1
    /\ net.details = 1
    /\ Len(Congresses(args)) = 2
    /\ Len(walks) = 1

\* C37: a response that _request_with_backoff returns to its caller has a
\* status code in [200, 300); every other status ends in a retry or in a
\* raised fault.
C37_ReturnsOnlySuccessStatuses ==
    pc = "returned" => (200 <= result.status /\ result.status < 300)

\* the step is a list-page fetch whose every attempt failed
PageFetchFailed ==
    /\ net'.pages = net.pages + 1
    /\ net'.failed = net.failed + MaxTriesBound
    /\ net'.http = net.http + MaxTriesBound
\* what the stream yields for the raw items dealt with so far
YieldedOf(tr) ==
    LET kept == Kept(tr, LAMBDA e : e.detail \in {"none", "ok"} /\ e.pred)
    IN [i \in 1..Len(kept) |-> kept[i].item]

\* C38: continue_on_error covers detail fetches only.  A transport fault of
\* a list-page fetch, of the first page or of a later one, is raised to the
\* consumer of iter_entities and ends the stream, with continue_on_error
\* True as with False, after what the items of the earlier pages gave was
\* yielded; nothing is yielded or requested afterwards.
C38_ListPageFaultEndsTheStream ==
    /\ [][PageFetchFailed =>
            /\ st_pc' = "raised"
            /\ st_raised' \in {TransportFault(u) : u \in PageUrls}
            /\ out' = out
            /\ Len(trail) = Len(listed)
            /\ ItemsIn(out) = YieldedOf(trail)]_vars
    /\ [][(st_pc = "raised" /\ st_raised \in {TransportFault(u) : u \in PageUrls}) =>
            (out' = out /\ net' = net /\ st_pc' = "raised" /\ trail' = trail)]_vars

\* continue_on_error=True: the entry of the first page was resolved and
\* yielded, then the fetch of the second page failed and the stream raised
C38_Witness ==
    /\ args.hydrate
    /\ args.continue_on_error
    /\ st_pc = "raised"
    /\ st_raised = TransportFault("p2")
    /\ Len(out) = 1
    /\ net.pages = 2
    /\ net.details = 1

\* a block that carries both keys
HasBothKeys(block) ==
    IsDict(block) /\ {"item", "items"} \subseteq DOMAIN block.m
\* the list a value under "item" or "items" stands for
AsList(x) == IF IsList(x) THEN x ELSE ListV(<<x>>)

\* C39: for a block that carries both `item` and `items`, _extract_items
\* gives what `item` holds whenever that is a list or a mapping, and what
\* `items` holds only when `item` is neither; and _extract_items applied
\* to its own result returns the result unchanged.
C39_ItemFirstAndIdempotent ==
    /\ (fn \in {"_extract_items", "_extract_items twice"} /\ HasBothKeys(arg.x)) =>
         LET item == arg.x.m["item"]
             items_ == arg.x.m["items"]
         IN IF IsList(item) \/ IsDict(item) THEN res.x = AsList(item)
            ELSE IF IsList(items_) \/ IsDict(items_) THEN res.x = AsList(items_)
            ELSE res.x = ListV(<<>>)
    /\ fn = "_extract_items twice" => again.x = res.x

\* `item` holds one mapping and `items` a list of two: the result is the
\* mapping, wrapped, and comes back unchanged from a second application
C39_Witness ==
    /\ fn = "_extract_items twice"
    /\ arg.x = MapV([item |-> EntryA, items |-> ListV(<<EntryA, EntryB>>)])
    /\ res.x = ListV(<<EntryA>>)
    /\ again.x = ListV(<<EntryA>>)

====
